---- MODULE Spec2Model ----
(***************************************************************************)
(* A model of yarpgen's expression IR: integral types, the UB-flagged      *)
(* primitive value, type propagation, evaluation and the UB-driven         *)
(* rebuild of expression nodes.                                            *)
(***************************************************************************)
EXTENDS Integers, Sequences, FiniteSets, TLC

(***************************************************************************)
(* Bounds.  Integral types keep their relative widths, scaled down so that *)
(* every value of a type can be enumerated: with Scale = 2 the character   *)
(* types have 2 bits, the short types 3, int 4 and the long types 5.       *)
(***************************************************************************)
Scale == 2

MaxRewrites == 3

(***************************************************************************)
(* Integral types                                                          *)
(***************************************************************************)
IntTypeID ==
    <<"BOOL", "SCHAR", "UCHAR", "SHORT", "USHORT", "INT", "UINT",
      "LONG", "ULONG", "LLONG", "ULLONG">>

IntTypes == {IntTypeID[i] : i \in 1..Len(IntTypeID)}

Rank(t) == CHOOSE i \in 1..Len(IntTypeID) : IntTypeID[i] = t

RECURSIVE Pow2(_)
Pow2(n) == IF n = 0 THEN 1 ELSE 2 * Pow2(n - 1)

getIsSigned(t) == t \in {"SCHAR", "SHORT", "INT", "LONG", "LLONG"}

getBitSize(t) ==
    CASE t = "BOOL" -> 1
      [] t \in {"SCHAR", "UCHAR"} -> Scale
      [] t \in {"SHORT", "USHORT"} -> Scale + 1
      [] t \in {"INT", "UINT"} -> Scale + 2
      [] OTHER -> Scale + 3

getMin(t) == IF getIsSigned(t) THEN 0 - Pow2(getBitSize(t) - 1) ELSE 0

getMax(t) ==
    IF getIsSigned(t) THEN Pow2(getBitSize(t) - 1) - 1
    ELSE Pow2(getBitSize(t)) - 1

canRepresentType(a, b) == getMin(a) <= getMin(b) /\ getMax(a) >= getMax(b)

getCorrUnsigned(t) ==
    CASE t = "SCHAR" -> "UCHAR"
      [] t = "SHORT" -> "USHORT"
      [] t = "INT" -> "UINT"
      [] t = "LONG" -> "ULONG"
      [] t = "LLONG" -> "ULLONG"
      [] OTHER -> t

(***************************************************************************)
(* IRValue: a fixed-width integer with an undefined-behaviour flag         *)
(***************************************************************************)
UBKinds ==
    {"NoUB", "SignOvf", "SignOvfMin", "ZeroDiv", "ShiftRhsNeg",
     "ShiftRhsLarge", "NegShift", "OutOfBounds"}

IRValue(v, u) == [val |-> v, ub |-> u]

\* two's-complement truncation / sign extension into type t
castToType(v, t) ==
    IF t = "BOOL" THEN (IF v = 0 THEN 0 ELSE 1)
    ELSE ((v - getMin(t)) % Pow2(getBitSize(t))) + getMin(t)

Abs(v) == IF v < 0 THEN 0 - v ELSE v

\* truncating division and remainder, as in C
TruncDiv(a, b) ==
    IF (a < 0) = (b < 0) THEN Abs(a) \div Abs(b) ELSE 0 - (Abs(a) \div Abs(b))

TruncMod(a, b) == a - b * TruncDiv(a, b)

\* 1-based position of the most significant set bit, 0 for 0
RECURSIVE findMSB(_)
findMSB(x) == IF x = 0 THEN 0 ELSE 1 + findMSB(x \div 2)

RECURSIVE BitOp(_, _, _, _)
BitOp(f, a, b, n) ==
    IF n = 0 THEN 0
    ELSE (IF f = "and" THEN (IF a % 2 = 1 /\ b % 2 = 1 THEN 1 ELSE 0)
          ELSE IF f = "or" THEN (IF a % 2 = 1 \/ b % 2 = 1 THEN 1 ELSE 0)
          ELSE (IF (a % 2) # (b % 2) THEN 1 ELSE 0))
         + 2 * BitOp(f, a \div 2, b \div 2, n - 1)

Bitwise(f, t, a, b) ==
    castToType(BitOp(f, a % Pow2(getBitSize(t)), b % Pow2(getBitSize(t)),
                     getBitSize(t)), t)

InRange(v, t) == getMin(t) <= v /\ v <= getMax(t)

BoolVal(b) == IF b THEN 1 ELSE 0

AddOp(t, a, b) ==
    IF getIsSigned(t) /\ ~InRange(a + b, t) THEN IRValue(0, "SignOvf")
    ELSE IRValue(castToType(a + b, t), "NoUB")

SubOp(t, a, b) ==
    IF getIsSigned(t) /\ ~InRange(a - b, t) THEN IRValue(0, "SignOvf")
    ELSE IRValue(castToType(a - b, t), "NoUB")

MulOp(t, a, b) ==
    IF getIsSigned(t) /\ ((a = getMin(t) /\ b = 0 - 1) \/
                          (a = 0 - 1 /\ b = getMin(t)))
    THEN IRValue(0, "SignOvfMin")
    ELSE IF getIsSigned(t) /\ ~InRange(a * b, t) THEN IRValue(0, "SignOvf")
    ELSE IRValue(castToType(a * b, t), "NoUB")

DivOp(t, a, b) ==
    IF b = 0 THEN IRValue(0, "ZeroDiv")
    ELSE IF getIsSigned(t) /\ a = getMin(t) /\ b = 0 - 1
    THEN IRValue(0, "SignOvf")
    ELSE IRValue(TruncDiv(a, b), "NoUB")

ModOp(t, a, b) ==
    IF b = 0 THEN IRValue(0, "ZeroDiv")
    ELSE IF getIsSigned(t) /\ a = getMin(t) /\ b = 0 - 1
    THEN IRValue(0, "SignOvf")
    ELSE IRValue(TruncMod(a, b), "NoUB")

\* checks shared by both shifts; lt is the type of the left operand
ShiftUB(op, lt, a, b) ==
    IF getIsSigned(lt) /\ a < 0 THEN "NegShift"
    ELSE IF b < 0 THEN "ShiftRhsNeg"
    ELSE IF b >= getBitSize(lt) THEN "ShiftRhsLarge"
    ELSE IF op = "SHL" /\ getIsSigned(lt) /\ b >= getBitSize(lt) - findMSB(a)
    THEN "ShiftRhsLarge"
    ELSE "NoUB"

ShlOp(lt, a, b) ==
    IF ShiftUB("SHL", lt, a, b) # "NoUB"
    THEN IRValue(0, ShiftUB("SHL", lt, a, b))
    ELSE IRValue(castToType(a * Pow2(b), lt), "NoUB")

ShrOp(lt, a, b) ==
    IF ShiftUB("SHR", lt, a, b) # "NoUB"
    THEN IRValue(0, ShiftUB("SHR", lt, a, b))
    ELSE IRValue(a \div Pow2(b), "NoUB")

UnaryOps == {"PLUS", "NEGATE", "LOG_NOT", "BIT_NOT"}

ArithOps == {"ADD", "SUB", "MUL", "DIV", "MOD"}
RelOps == {"LT", "GT", "LE", "GE", "EQ", "NE"}
BitOps == {"BIT_AND", "BIT_OR", "BIT_XOR"}
ShiftOps == {"SHL", "SHR"}
LogOps == {"LOG_AND", "LOG_OR"}
BinaryOps == ArithOps \cup RelOps \cup BitOps \cup ShiftOps \cup LogOps

\* the unary operators of IRValue
UnaryOperator(op, t, a) ==
    CASE op = "PLUS" -> IRValue(a, "NoUB")
      [] op = "NEGATE" ->
            IF getIsSigned(t) /\ a = getMin(t) THEN IRValue(0, "SignOvf")
            ELSE IRValue(castToType(0 - a, t), "NoUB")
      [] op = "LOG_NOT" -> IRValue(BoolVal(a = 0), "NoUB")
      [] op = "BIT_NOT" -> IRValue(castToType(0 - a - 1, t), "NoUB")

\* the binary operators of IRValue; lt is the type of the left operand
BinaryOperator(op, lt, a, b) ==
    CASE op = "ADD" -> AddOp(lt, a, b)
      [] op = "SUB" -> SubOp(lt, a, b)
      [] op = "MUL" -> MulOp(lt, a, b)
      [] op = "DIV" -> DivOp(lt, a, b)
      [] op = "MOD" -> ModOp(lt, a, b)
      [] op = "LT" -> IRValue(BoolVal(a < b), "NoUB")
      [] op = "GT" -> IRValue(BoolVal(a > b), "NoUB")
      [] op = "LE" -> IRValue(BoolVal(a <= b), "NoUB")
      [] op = "GE" -> IRValue(BoolVal(a >= b), "NoUB")
      [] op = "EQ" -> IRValue(BoolVal(a = b), "NoUB")
      [] op = "NE" -> IRValue(BoolVal(a # b), "NoUB")
      [] op = "LOG_AND" -> IRValue(BoolVal(a # 0 /\ b # 0), "NoUB")
      [] op = "LOG_OR" -> IRValue(BoolVal(a # 0 \/ b # 0), "NoUB")
      [] op = "BIT_AND" -> IRValue(Bitwise("and", lt, a, b), "NoUB")
      [] op = "BIT_OR" -> IRValue(Bitwise("or", lt, a, b), "NoUB")
      [] op = "BIT_XOR" -> IRValue(Bitwise("xor", lt, a, b), "NoUB")
      [] op = "SHL" -> ShlOp(lt, a, b)
      [] op = "SHR" -> ShrOp(lt, a, b)

(***************************************************************************)
(* Data objects and expression nodes                                       *)
(*                                                                         *)
(* A Data object is a record; the store `data` maps the name of a declared *)
(* variable to its Data object.  A use-expression holds a pointer to its   *)
(* Data object, modelled by the name; every other node owns the Data       *)
(* object of its last evaluation in the field `value`.                     *)
(***************************************************************************)
ScalarVar(n, t, v, u) ==
    [kind |-> "VAR", name |-> n, type |-> t, val |-> v, ub |-> u]

UseKinds == {"SCALAR_VAR_USE", "ARRAY_USE", "ITER_USE"}

ScalarVarUseExpr(n) == [kind |-> "SCALAR_VAR_USE", name |-> n]

ConstantExpr(t, v) ==
    [kind |-> "CONST", value |-> ScalarVar("", t, castToType(v, t), "NoUB")]

\* Expr::getValue: the Data object a node currently points to
getValue(e, d) ==
    IF e.kind \in UseKinds \cup {"SUBSCRIPT"} THEN d[e.name] ELSE e.value

\* the value evaluate() hands back to its caller: a use-expression returns
\* the override of ctx.input when there is one, every other node its value
EvalRes(e, d, c) ==
    IF e.kind \in UseKinds
    THEN (IF e.name \in DOMAIN c THEN c[e.name] ELSE d[e.name])
    ELSE e.value

isIntType(t) == t \in IntTypes

\* the node left where ERROR aborts the generation
ErrorExpr == [kind |-> "ERROR", value |-> ScalarVar("", "INT", 0, "NoUB")]

isArrayType(t) == t = "ARRAY"

\* TypeCastExpr::TypeCastExpr: ERROR for types that cannot be cast, the
\* cast value for an integral scalar, ERROR for everything else
TypeCastExpr(e, to, impl, d) ==
    IF ~(\/ isIntType(getValue(e, d).type) /\ isIntType(to)
         \/ isArrayType(getValue(e, d).type) /\ isArrayType(to))
    THEN ErrorExpr
    ELSE IF isIntType(getValue(e, d).type) /\ getValue(e, d).kind = "VAR"
    THEN [kind |-> "TYPE_CAST", expr |-> e, to_type |-> to,
          is_implicit |-> impl,
          value |-> ScalarVar("", to, castToType(getValue(e, d).val, to),
                              "NoUB")]
    ELSE ErrorExpr

\* integralProm without the test of the rank: nothing is promoted
integralProm_never(arg, d) == arg

\* integralProm without the early return: a cast is always inserted
integralProm_always(arg, d) == TypeCastExpr(arg, "INT", TRUE, d)

\* ArithmeticExpr::integralProm
integralProm(arg, d) ==
    IF getValue(arg, d).kind # "VAR" THEN ErrorExpr
    ELSE IF Rank(getValue(arg, d).type) >= Rank("INT") THEN arg
    ELSE TypeCastExpr(arg, "INT", TRUE, d)

\* ArithmeticExpr::convToBool
convToBool(arg, d) ==
    IF getValue(arg, d).kind # "VAR" THEN ErrorExpr
    ELSE IF getValue(arg, d).type = "BOOL" THEN arg
    ELSE TypeCastExpr(arg, "BOOL", TRUE, d)

(***************************************************************************)
(* BinaryExpr::arithConv.  arithConvRule names the paragraph of            *)
(* [expr.arith.conv] through which the function returns for operands of    *)
(* types lt and rt: 1..5, with "L" or "R" for the operand order in which   *)
(* rules 3 to 5 fired, and "unreachable" for the final ERROR.              *)
(***************************************************************************)
signed_to_unsigned_conv(a, b) == ~getIsSigned(a) /\ Rank(a) >= Rank(b)

\* rule 4 without the test that the signed type can represent the other
unsigned_to_signed_conv_any(a, b) == getIsSigned(a)

unsigned_to_signed_conv(a, b) == getIsSigned(a) /\ canRepresentType(a, b)

final_conversion(a) == getIsSigned(a)

\* arithConv without the second call of final_conversion
arithConvRule_lhs_only(lt, rt) ==
    IF lt = rt THEN "1"
    ELSE IF getIsSigned(lt) = getIsSigned(rt) THEN "2"
    ELSE IF signed_to_unsigned_conv(lt, rt) THEN "3L"
    ELSE IF signed_to_unsigned_conv(rt, lt) THEN "3R"
    ELSE IF unsigned_to_signed_conv(lt, rt) THEN "4L"
    ELSE IF unsigned_to_signed_conv(rt, lt) THEN "4R"
    ELSE IF final_conversion(lt) THEN "5L"
    ELSE "unreachable"

arithConvRule(lt, rt) ==
    IF lt = rt THEN "1"
    ELSE IF getIsSigned(lt) = getIsSigned(rt) THEN "2"
    ELSE IF signed_to_unsigned_conv(lt, rt) THEN "3L"
    ELSE IF signed_to_unsigned_conv(rt, lt) THEN "3R"
    ELSE IF unsigned_to_signed_conv(lt, rt) THEN "4L"
    ELSE IF unsigned_to_signed_conv(rt, lt) THEN "4R"
    ELSE IF final_conversion(lt) THEN "5L"
    ELSE IF final_conversion(rt) THEN "5R"
    ELSE "unreachable"

MaxType(a, b) == IF Rank(a) >= Rank(b) THEN a ELSE b

\* the pair of operands arithConv leaves in lhs and rhs
arithConv(l, r, d) ==
    LET lt == getValue(l, d).type
        rt == getValue(r, d).type
        rule == arithConvRule(lt, rt)
    IN  CASE rule = "1" -> <<l, r>>
          [] rule = "2" ->
                IF Rank(lt) > Rank(rt)
                THEN <<l, TypeCastExpr(r, MaxType(lt, rt), TRUE, d)>>
                ELSE <<TypeCastExpr(l, MaxType(lt, rt), TRUE, d), r>>
          [] rule = "3L" -> <<l, TypeCastExpr(r, lt, TRUE, d)>>
          [] rule = "3R" -> <<TypeCastExpr(l, rt, TRUE, d), r>>
          [] rule = "4L" -> <<l, TypeCastExpr(r, lt, TRUE, d)>>
          [] rule = "4R" -> <<TypeCastExpr(l, rt, TRUE, d), r>>
          [] rule = "5L" ->
                <<TypeCastExpr(l, getCorrUnsigned(lt), TRUE, d),
                  TypeCastExpr(r, getCorrUnsigned(lt), TRUE, d)>>
          [] rule = "5R" ->
                <<TypeCastExpr(l, getCorrUnsigned(rt), TRUE, d),
                  TypeCastExpr(r, getCorrUnsigned(rt), TRUE, d)>>
          [] OTHER -> <<ErrorExpr, ErrorExpr>>

(***************************************************************************)
(* propagateType, by node kind                                             *)
(***************************************************************************)
RECURSIVE propagateType(_, _)

\* the conversion UnaryExpr::propagateType applies to the propagated operand
UnaryExpr_convert(op, a, d) ==
    IF op = "LOG_NOT" THEN convToBool(a, d) ELSE integralProm(a, d)

UnaryExpr_propagateType(e, d) ==
    [e EXCEPT !.arg = UnaryExpr_convert(e.op, propagateType(e.arg, d), d)]

\* the switch of BinaryExpr::propagateType on the propagated operands
BinaryExpr_convert(op, l, r, d) ==
    IF op \in ArithOps \cup RelOps \cup BitOps
    THEN arithConv(integralProm(l, d), integralProm(r, d), d)
    ELSE IF op \in ShiftOps
    THEN <<integralProm(l, d), integralProm(r, d)>>
    ELSE <<convToBool(l, d), convToBool(r, d)>>

\* the operands of a binary node replaced by the pair p
setOperands(e, p) == [e EXCEPT !.lhs = p[1], !.rhs = p[2]]

BinaryExpr_propagateType(e, d) ==
    setOperands(e, BinaryExpr_convert(e.op, propagateType(e.lhs, d),
                                      propagateType(e.rhs, d), d))

TypeCastExpr_propagateType(e, d) ==
    [e EXCEPT !.expr = propagateType(e.expr, d)]

SubscriptExpr_propagateType(e, d) ==
    [e EXCEPT !.array = propagateType(e.array, d),
              !.idx = propagateType(e.idx, d)]

AssignmentExpr_propagateType(e, d) ==
    [e EXCEPT !.to = propagateType(e.to, d),
              !.from = propagateType(e.from, d)]

propagateType(e, d) ==
    CASE e.kind = "UNARY" -> UnaryExpr_propagateType(e, d)
      [] e.kind = "BINARY" -> BinaryExpr_propagateType(e, d)
      [] e.kind = "TYPE_CAST" -> TypeCastExpr_propagateType(e, d)
      [] e.kind = "SUBSCRIPT" -> SubscriptExpr_propagateType(e, d)
      [] e.kind = "ASSIGN" -> AssignmentExpr_propagateType(e, d)
      [] OTHER -> e

(***************************************************************************)
(* evaluate, for the nodes whose evaluation leaves every Data object       *)
(* alone: constants, uses, casts, unary and binary nodes                   *)
(***************************************************************************)
RECURSIVE evaluate(_, _, _)

\* the Data object an operator node stores for the result r on type t
resultValue(t, r) == ScalarVar("", t, r.val, r.ub)

\* the cast of the value x that the evaluation of the operand handed back
TypeCastExpr_cast(e, x, d, c) ==
    [e EXCEPT !.expr = x,
              !.value = ScalarVar("", e.to_type,
                            castToType(EvalRes(x, d, c).val, e.to_type),
                            "NoUB")]

\* TypeCastExpr::evaluate: recurse, then cast the value handed back
TypeCastExpr_evaluate(e, d, c) ==
    TypeCastExpr_cast(e, evaluate(e.expr, d, c), d, c)

\* the switch of UnaryExpr::evaluate on the operand value a
UnaryExpr_apply(e, a) ==
    [e EXCEPT !.value = resultValue(a.type, UnaryOperator(e.op, a.type, a.val))]

\* UnaryExpr::evaluate: reads the value its operand currently holds
UnaryExpr_evaluate(e, d, c) == UnaryExpr_apply(e, getValue(e.arg, d))

\* the switch of BinaryExpr::evaluate, on the values the operands of p
\* point to
BinaryExpr_apply(p, d) ==
    [p EXCEPT !.value =
        resultValue(getValue(p.lhs, d).type,
                    BinaryOperator(p.op, getValue(p.lhs, d).type,
                                   getValue(p.lhs, d).val,
                                   getValue(p.rhs, d).val))]

\* the operands of the propagated node p are evaluated, their return
\* values dropped
BinaryExpr_operands(p, d, c) ==
    BinaryExpr_apply(
        setOperands(p, <<evaluate(p.lhs, d, c), evaluate(p.rhs, d, c)>>), d)

\* BinaryExpr::evaluate
BinaryExpr_evaluate(e, d, c) ==
    BinaryExpr_operands(BinaryExpr_propagateType(e, d), d, c)

evaluate(e, d, c) ==
    CASE e.kind = "TYPE_CAST" -> TypeCastExpr_evaluate(e, d, c)
      [] e.kind = "UNARY" -> UnaryExpr_evaluate(e, d, c)
      [] e.kind = "BINARY" -> BinaryExpr_evaluate(e, d, c)
      [] OTHER -> e

\* constructors of the operator nodes; the node's value is available from
\* construction on, the operands are stored as given
UnaryExpr(op, a, d, c) ==
    [kind |-> "UNARY", op |-> op, arg |-> a,
     value |-> UnaryExpr_evaluate([kind |-> "UNARY", op |-> op, arg |-> a,
                                   value |-> getValue(a, d)], d, c).value]

BinaryExpr(op, l, r, d, c) ==
    [kind |-> "BINARY", op |-> op, lhs |-> l, rhs |-> r,
     value |-> BinaryExpr_evaluate([kind |-> "BINARY", op |-> op, lhs |-> l,
                                    rhs |-> r, value |-> getValue(l, d)],
                                   d, c).value]

hasUB(v) == v.ub # "NoUB"

(***************************************************************************)
(* rebuild.  The outcome of a rebuild is a record: st is "ok" when rebuild *)
(* returns, "error" when it reaches ERROR and "diverged" when it needs     *)
(* more than MaxRewrites rewrites; node is the node it leaves; rw is the   *)
(* sequence of rewrites made, each with the UB kind that caused it and the *)
(* value drawn from the random generator.                                  *)
(***************************************************************************)
Outcome(st, n, rw) == [st |-> st, node |-> n, rw |-> rw]

Rewrite(ub, k) == [ub |-> ub, k |-> k]

\* the operator swap with the two repairs of DIV and MOD exchanged
SwapOp_div_flipped(op, ub) ==
    CASE op = "ADD" -> "SUB"
      [] op = "SUB" -> "ADD"
      [] op = "MUL" -> (IF ub = "SignOvfMin" THEN "SUB" ELSE "DIV")
      [] op \in {"DIV", "MOD"} -> (IF ub = "ZeroDiv" THEN "SUB" ELSE "MUL")
      [] OTHER -> op

\* the operator swap that ignores SignOvfMin: MUL always becomes DIV
SwapOp_mul_div(op, ub) ==
    CASE op = "ADD" -> "SUB"
      [] op = "SUB" -> "ADD"
      [] op = "MUL" -> "DIV"
      [] op \in {"DIV", "MOD"} -> (IF ub = "ZeroDiv" THEN "MUL" ELSE "SUB")
      [] OTHER -> op

\* the operator swap of BinaryExpr::rebuild for the arithmetic operators
SwapOp(op, ub) ==
    CASE op = "ADD" -> "SUB"
      [] op = "SUB" -> "ADD"
      [] op = "MUL" -> (IF ub = "SignOvfMin" THEN "SUB" ELSE "DIV")
      [] op \in {"DIV", "MOD"} -> (IF ub = "ZeroDiv" THEN "MUL" ELSE "SUB")
      [] OTHER -> op

\* the largest shift amount the repair may draw
max_sht_val(e, ub, d) ==
    LET lv == getValue(e.lhs, d)
    IN  IF e.op = "SHL" /\ getIsSigned(lv.type) /\ ub = "ShiftRhsLarge"
        THEN getBitSize(lv.type) - findMSB(Abs(lv.val))
        ELSE getBitSize(lv.type)

Min2(a, b) == IF a <= b THEN a ELSE b

\* the adjustment that is the drawn value itself when the RHS is too large
adjust_val_drawn(e, ub, k, d) ==
    LET rv == getValue(e.rhs, d)
    IN  IF ub = "ShiftRhsNeg"
        THEN Min2(k + Abs(rv.val), getBitSize(rv.type))
        ELSE k

\* the constant the shift-amount repair combines with the old RHS
adjust_val(e, ub, k, d) ==
    LET rv == getValue(e.rhs, d)
    IN  IF ub = "ShiftRhsNeg"
        THEN Min2(k + Abs(rv.val), getBitSize(rv.type))
        ELSE Abs(rv.val) - k

\* the shift repair that adds 1, not the maximum of its type, to the LHS
shiftOperand_plus_one(e, ub, k, d, c) ==
    IF ub \in {"ShiftRhsLarge", "ShiftRhsNeg"}
    THEN <<IF ub = "ShiftRhsNeg" THEN "ADD" ELSE "SUB", e.rhs,
           ConstantExpr(getValue(e.rhs, d).type, adjust_val(e, ub, k, d))>>
    ELSE <<"ADD", e.lhs, ConstantExpr(getValue(e.lhs, d).type, 1)>>

\* the operand the shift repair puts in place of the old one: the old RHS
\* plus or minus the adjustment, or the old LHS plus the maximum of its type
shiftOperand(e, ub, k, d, c) ==
    IF ub \in {"ShiftRhsLarge", "ShiftRhsNeg"}
    THEN <<IF ub = "ShiftRhsNeg" THEN "ADD" ELSE "SUB", e.rhs,
           ConstantExpr(getValue(e.rhs, d).type, adjust_val(e, ub, k, d))>>
    ELSE <<"ADD", e.lhs,
           ConstantExpr(getValue(e.lhs, d).type,
                        getMax(getValue(e.lhs, d).type))>>

\* the new operand node built from the triple s, put in its place
setShiftOperand(e, ub, n) ==
    IF ub \in {"ShiftRhsLarge", "ShiftRhsNeg"}
    THEN [e EXCEPT !.rhs = n] ELSE [e EXCEPT !.lhs = n]

\* the new operand node built over the old operand with its operator swapped
newOperand_swapped(s, d, c) ==
    BinaryExpr(s[1],
               IF s[2].kind = "BINARY"
               THEN [s[2] EXCEPT !.op = SwapOp(s[2].op, "SignOvf")] ELSE s[2],
               s[3], d, c)

newOperand(s, d, c) == BinaryExpr(s[1], s[2], s[3], d, c)

\* the switch of BinaryExpr::rebuild on a node e that evaluated with ub:
\* the set of rewritten nodes, one for each value the generator may draw
BinaryExpr_rewrite(e, ub, d, c) ==
    IF e.op \in ArithOps
    THEN {[node |-> [e EXCEPT !.op = SwapOp(e.op, ub)], k |-> 0]}
    ELSE IF e.op \in ShiftOps
    THEN {[node |-> setShiftOperand(e, ub,
                        newOperand(shiftOperand(e, ub, k, d, c), d, c)),
           k |-> k]
          : k \in IF ub \in {"ShiftRhsLarge", "ShiftRhsNeg"}
                  THEN 0..max_sht_val(e, ub, d) ELSE {0}}
    ELSE {[node |-> e, k |-> 0]}

RECURSIVE BinaryExpr_rebuild(_, _, _, _)

\* an outcome of the recursive rebuild, evaluated once more by the do-while
again(o, rw, d, c) ==
    IF o.st = "ok" THEN Outcome("ok", evaluate(o.node, d, c), rw \o o.rw)
    ELSE Outcome(o.st, o.node, rw \o o.rw)

\* the do-while on the evaluated node ev: break when the UB flag is clear,
\* rebuild again otherwise
BinaryExpr_while(ev, rw, d, c, fuel) ==
    IF ~hasUB(ev.value) THEN {Outcome("ok", ev, rw)}
    ELSE {again(o, rw, d, c) : o \in BinaryExpr_rebuild(ev, d, c, fuel)}

\* rebuild without its do-while: the rewritten node is evaluated once
BinaryExpr_loop_once(e, rw, d, c, fuel) ==
    {Outcome("ok", evaluate(e, d, c), rw)}

\* the do-while of BinaryExpr::rebuild on the rewritten node e
BinaryExpr_loop(e, rw, d, c, fuel) ==
    BinaryExpr_while(evaluate(e, d, c), rw, d, c, fuel)

\* the switch of BinaryExpr::rebuild and its do-while, on the evaluated node
BinaryExpr_switch(ev, d, c, fuel) ==
    IF ~hasUB(ev.value) THEN {Outcome("ok", ev, <<>>)}
    ELSE IF fuel = 0 THEN {Outcome("diverged", ev, <<>>)}
    ELSE UNION {BinaryExpr_loop(r.node, <<Rewrite(ev.value.ub, r.k)>>, d, c,
                                fuel - 1)
                : r \in BinaryExpr_rewrite(ev, ev.value.ub, d, c)}

BinaryExpr_rebuild(e, d, c, fuel) ==
    BinaryExpr_switch(evaluate(e, d, c), d, c, fuel)

RECURSIVE UnaryExpr_rebuild(_, _, _, _)

UnaryExpr_while(ev, rw, d, c, fuel) ==
    IF ~hasUB(ev.value) THEN {Outcome("ok", ev, rw)}
    ELSE {again(o, rw, d, c) : o \in UnaryExpr_rebuild(ev, d, c, fuel)}

\* the do-while of UnaryExpr::rebuild on the rewritten node e
UnaryExpr_loop(e, rw, d, c, fuel) ==
    UnaryExpr_while(evaluate(e, d, c), rw, d, c, fuel)

\* the switch that turns NEGATE into BIT_NOT, not into PLUS
UnaryExpr_switch_bit_not(ev, d, c, fuel) ==
    IF ~hasUB(ev.value) THEN {Outcome("ok", ev, <<>>)}
    ELSE IF ev.op # "NEGATE" THEN {Outcome("error", ev, <<>>)}
    ELSE IF fuel = 0 THEN {Outcome("diverged", ev, <<>>)}
    ELSE UnaryExpr_loop([ev EXCEPT !.op = "BIT_NOT"],
                        <<Rewrite(ev.value.ub, 0)>>, d, c, fuel - 1)

\* the switch of UnaryExpr::rebuild and its do-while, on the evaluated node
UnaryExpr_switch(ev, d, c, fuel) ==
    IF ~hasUB(ev.value) THEN {Outcome("ok", ev, <<>>)}
    ELSE IF ev.op # "NEGATE" THEN {Outcome("error", ev, <<>>)}
    ELSE IF fuel = 0 THEN {Outcome("diverged", ev, <<>>)}
    ELSE UnaryExpr_loop([ev EXCEPT !.op = "PLUS"],
                        <<Rewrite(ev.value.ub, 0)>>, d, c, fuel - 1)

UnaryExpr_rebuild(e, d, c, fuel) ==
    UnaryExpr_switch(evaluate(e, d, c), d, c, fuel)

\* rebuild of one node, by kind; constants, uses and casts only evaluate
rebuild(e, d, c) ==
    CASE e.kind = "UNARY" -> UnaryExpr_rebuild(e, d, c, MaxRewrites)
      [] e.kind = "BINARY" -> BinaryExpr_rebuild(e, d, c, MaxRewrites)
      [] OTHER -> {Outcome("ok", evaluate(e, d, c), <<>>)}

(***************************************************************************)
(* emit: the text a node writes to the output stream                       *)
(***************************************************************************)
\* the name and the literal suffix of an integral type in the target language
getName(t) ==
    CASE t = "BOOL" -> "bool"
      [] t = "SCHAR" -> "signed char"
      [] t = "UCHAR" -> "unsigned char"
      [] t = "SHORT" -> "short"
      [] t = "USHORT" -> "unsigned short"
      [] t = "INT" -> "int"
      [] t = "UINT" -> "unsigned int"
      [] t = "LONG" -> "long int"
      [] t = "ULONG" -> "unsigned long int"
      [] t = "LLONG" -> "long long int"
      [] t = "ULLONG" -> "unsigned long long int"

getLiteralSuffix(t) ==
    CASE t = "UINT" -> "U"
      [] t = "LONG" -> "L"
      [] t = "ULONG" -> "UL"
      [] t = "LLONG" -> "LL"
      [] t = "ULLONG" -> "ULL"
      [] OTHER -> ""

\* ConstantExpr::emit: the literal, or (TYPE_MIN+1 - 1) for a signed minimum
ConstantExpr_emit(v) ==
    IF ~getIsSigned(v.type) \/ v.val # getMin(v.type)
    THEN ToString(v.val) \o getLiteralSuffix(v.type)
    ELSE "(" \o ToString(getMin(v.type) + 1) \o " - " \o ToString(1) \o ")"

\* the operator characters UnaryExpr::emit and BinaryExpr::emit write
UnaryExpr_symbol(op) ==
    CASE op = "PLUS" -> "+"
      [] op = "NEGATE" -> "-"
      [] op = "LOG_NOT" -> "!"
      [] op = "BIT_NOT" -> "~"

BinaryExpr_symbol(op) ==
    CASE op = "ADD" -> " + "
      [] op = "SUB" -> " - "
      [] op = "MUL" -> " * "
      [] op = "DIV" -> " / "
      [] op = "MOD" -> " % "
      [] op = "LT" -> " < "
      [] op = "GT" -> " > "
      [] op = "LE" -> " <= "
      [] op = "GE" -> " >= "
      [] op = "EQ" -> " == "
      [] op = "NE" -> " != "
      [] op = "LOG_AND" -> " && "
      [] op = "LOG_OR" -> " || "
      [] op = "BIT_AND" -> " & "
      [] op = "BIT_OR" -> " | "
      [] op = "BIT_XOR" -> " ^ "
      [] op = "SHL" -> " << "
      [] op = "SHR" -> " >> "

\* TypeCastExpr::emit around the text x of its operand
TypeCastExpr_emit(e, x) ==
    "((" \o (IF e.is_implicit THEN "/* implicit */" ELSE "")
         \o getName(e.to_type) \o ") " \o x \o ")"

\* UnaryExpr::emit around the text x of its operand
UnaryExpr_emit(op, x) == "(" \o UnaryExpr_symbol(op) \o "(" \o x \o "))"

\* BinaryExpr::emit around the texts l and r of its operands
BinaryExpr_emit(op, l, r) ==
    "(" \o l \o ")" \o BinaryExpr_symbol(op) \o "(" \o r \o ")"

RECURSIVE emit(_)
\* emit of a node, by kind, with the empty offset; a use-expression writes
\* the name of its variable
emit(e) ==
    CASE e.kind = "CONST" -> ConstantExpr_emit(e.value)
      [] e.kind = "TYPE_CAST" -> TypeCastExpr_emit(e, emit(e.expr))
      [] e.kind = "UNARY" -> UnaryExpr_emit(e.op, emit(e.arg))
      [] e.kind = "BINARY" -> BinaryExpr_emit(e.op, emit(e.lhs), emit(e.rhs))
      [] e.kind = "SUBSCRIPT" -> emit(e.array) \o " [" \o emit(e.idx) \o "]"
      [] e.kind = "ASSIGN" -> emit(e.to) \o " = " \o emit(e.from)
      [] OTHER -> e.name

(***************************************************************************)
(* The generation pipeline on one expression tree                          *)
(***************************************************************************)
VARIABLES
    tree,   \* the expression under generation
    data,   \* the declared Data objects, by name
    ctx,    \* ctx.input: the overrides, by name
    pc,     \* the position of the pipeline
    last,   \* what the last step did: the tree before it and its outcome
    heap,       \* the use-expression nodes allocated so far
    use_set,    \* the interning maps, by kind of use-expression
    returned,   \* the requests for a use-expression and what they returned
    stream      \* the text emitted so far

vars == <<tree, data, ctx, pc, last, heap, use_set, returned, stream>>

\* every node of a tree, the root included
RECURSIVE Nodes(_)
Nodes(e) ==
    {e} \cup
    CASE e.kind = "UNARY" -> Nodes(e.arg)
      [] e.kind = "BINARY" -> Nodes(e.lhs) \cup Nodes(e.rhs)
      [] e.kind = "TYPE_CAST" -> Nodes(e.expr)
      [] e.kind = "SUBSCRIPT" -> Nodes(e.array) \cup Nodes(e.idx)
      [] e.kind = "ASSIGN" -> Nodes(e.to) \cup Nodes(e.from)
      [] OTHER -> {}

\* the caller's bottom-up order: the children are rebuilt before the node
RECURSIVE rebuildAll(_, _, _)

\* the node e with its children rebuilt
rebuildChildren(e, d, c) ==
    CASE e.kind = "UNARY" ->
            {Outcome(a.st, [e EXCEPT !.arg = a.node], <<>>)
                : a \in rebuildAll(e.arg, d, c)}
      [] e.kind = "BINARY" ->
            {Outcome(IF l.st = "ok" THEN r.st ELSE l.st,
                     [e EXCEPT !.lhs = l.node, !.rhs = r.node], <<>>)
                : l \in rebuildAll(e.lhs, d, c), r \in rebuildAll(e.rhs, d, c)}
      [] e.kind = "TYPE_CAST" ->
            {Outcome(a.st, [e EXCEPT !.expr = a.node], <<>>)
                : a \in rebuildAll(e.expr, d, c)}
      [] OTHER -> {Outcome("ok", e, <<>>)}

rebuildAll(e, d, c) ==
    UNION {IF o.st = "ok" THEN rebuild(o.node, d, c)
           ELSE {Outcome(o.st, e, <<>>)}
           : o \in rebuildChildren(e, d, c)}

(***************************************************************************)
(* Subscripts.  An Array Data object carries its dimensions and the UB     *)
(* code that SubscriptExpr::evaluate writes into it; an Iterator carries   *)
(* its start, end and step expressions.  The value of a subscript node is  *)
(* a pointer to the array Data object, modelled by the field `name`.       *)
(* Evaluating a subscript changes the store, so it yields a record: the    *)
(* node, the store, and st = "error" where ERROR or an exception aborts.   *)
(***************************************************************************)
Array(n, dims) ==
    [kind |-> "ARR", name |-> n, type |-> "ARRAY", dims |-> dims, ub |-> "NoUB"]

Iterator(n, s, e, step) ==
    [kind |-> "ITER", name |-> n, type |-> "ITER", start |-> s, end |-> e,
     step |-> step]

ArrayUseExpr(n) == [kind |-> "ARRAY_USE", name |-> n]

IterUseExpr(n) == [kind |-> "ITER_USE", name |-> n]

SubscriptExpr(a, i) ==
    [kind |-> "SUBSCRIPT", array |-> a, idx |-> i, active_dim |-> 0,
     active_size |-> 0, idx_int_type_id |-> "INT", name |-> a.name]

Result(n, d, st) == [node |-> n, data |-> d, st |-> st]

\* the scalar branch of SubscriptExpr::inBounds
inBoundsScalar(dim, v) == 0 <= v.val /\ v.val <= castToType(dim, v.type)

\* the values the start and the end of an iterator evaluate to
endpoints(v, d, c) ==
    <<EvalRes(evaluate(v.start, d, c), d, c),
      EvalRes(evaluate(v.end, d, c), d, c)>>

\* SubscriptExpr::inBounds
inBounds(dim, v, d, c) ==
    CASE v.kind = "VAR" -> inBoundsScalar(dim, v)
      [] v.kind = "ITER" ->
            \A x \in {endpoints(v, d, c)} :
                inBoundsScalar(dim, x[1]) /\ inBoundsScalar(dim, x[2])
      [] OTHER -> FALSE

\* the integer type id inBounds leaves in idx_int_type_id: that of the
\* last scalar it compared
idxIntTypeId(dim, v, x, old) ==
    CASE v.kind = "VAR" -> v.type
      [] v.kind = "ITER" ->
            IF inBoundsScalar(dim, x[1]) THEN x[2].type ELSE x[1].type
      [] OTHER -> old

activeDim(a) == IF a.kind = "ARRAY_USE" THEN 0 ELSE a.active_dim + 1

hasError(e) == \E n \in Nodes(e) : n.kind = "ERROR"

\* the bounds check and the stores of SubscriptExpr::evaluate, on the node
\* p whose base is evaluated, the store d the base left, and the index
\* value iv
\* (the node's value is the array as long as active_dim is below the number
\* of dimensions, which it is whenever dims.at(active_dim) has succeeded)
SubscriptExpr_check(p, d, iv, c) ==
    IF hasError(p.idx) \/ activeDim(p.array) >= Len(d[p.array.name].dims)
    THEN Result(p, d, "error")
    ELSE Result(
            [p EXCEPT !.active_dim = activeDim(p.array),
                      !.active_size = d[p.array.name].dims[activeDim(p.array) + 1],
                      !.idx_int_type_id =
                          idxIntTypeId(
                              d[p.array.name].dims[activeDim(p.array) + 1], iv,
                              IF iv.kind = "ITER" THEN endpoints(iv, d, c)
                              ELSE <<iv, iv>>, p.idx_int_type_id),
                      !.name =
                          IF activeDim(p.array) < Len(d[p.array.name].dims)
                          THEN p.array.name ELSE "values"],
            [d EXCEPT ![p.array.name].ub =
                IF inBounds(d[p.array.name].dims[activeDim(p.array) + 1],
                            iv, d, c)
                THEN "NoUB" ELSE "OutOfBounds"],
            "ok")

RECURSIVE SubscriptExpr_evaluate(_, _, _)

\* the index of p is evaluated after the base, whose evaluation gave b
SubscriptExpr_index(p, b, x, c) ==
    IF b.st # "ok" THEN Result(p, b.data, b.st)
    ELSE SubscriptExpr_check([p EXCEPT !.array = b.node, !.idx = x], b.data,
                             EvalRes(x, b.data, c), c)

\* the base of the propagated node p is evaluated first
SubscriptExpr_base(p, d, c) ==
    SubscriptExpr_index(p,
        IF p.array.kind = "SUBSCRIPT" THEN SubscriptExpr_evaluate(p.array, d, c)
        ELSE Result(p.array, d,
                    IF p.array.kind = "ARRAY_USE" THEN "ok" ELSE "error"),
        evaluate(p.idx, d, c), c)

\* SubscriptExpr::evaluate
SubscriptExpr_evaluate(e, d, c) ==
    SubscriptExpr_base(SubscriptExpr_propagateType(e, d), d, c)

\* the index of the evaluated node wrapped in MOD by the active size
SubscriptExpr_wrap(r, c) ==
    [r.node EXCEPT !.idx =
        BinaryExpr("MOD", r.node.idx,
                   ConstantExpr(r.node.idx_int_type_id, r.node.active_size),
                   r.data, c)]

\* the assert after the second evaluation fails when the UB is gone: a
\* build with assertions aborts there ("assert"), one without goes on
SubscriptExpr_assert(r) ==
    IF r.st = "ok" /\ ~hasUB(r.data[r.node.name])
    THEN {r, [r EXCEPT !.st = "assert"]}
    ELSE {r}

\* SubscriptExpr::rebuild after its first evaluation, which gave r
SubscriptExpr_repair(r, c) ==
    IF r.st # "ok" \/ ~hasUB(r.data[r.node.name]) THEN {r}
    ELSE SubscriptExpr_assert(
            SubscriptExpr_evaluate(SubscriptExpr_wrap(r, c), r.data, c))

\* SubscriptExpr::rebuild
SubscriptExpr_rebuild(e, d, c) ==
    SubscriptExpr_repair(SubscriptExpr_evaluate(e, d, c), c)

(***************************************************************************)
(* Assignments                                                             *)
(***************************************************************************)
AssignmentExpr(to, from, taken) ==
    [kind |-> "ASSIGN", to |-> to, from |-> from, taken |-> taken]

\* setValue that stores the value of the expression under the cast
ScalarVarUseExpr_setValue_uncast(to, from, d) ==
    [d EXCEPT ![to.name].val = getValue(from.expr, d).val,
              ![to.name].ub = getValue(from.expr, d).ub]

\* ScalarVarUseExpr::setValue; the caller has compared the types
ScalarVarUseExpr_setValue(to, from, d) ==
    [d EXCEPT ![to.name].val = getValue(from, d).val,
              ![to.name].ub = getValue(from, d).ub]

\* the end of AssignmentExpr::evaluate, on the node q whose source is the
\* evaluated cast
AssignmentExpr_store(q, d) ==
    IF hasError(q.from) THEN Result(q, d, "error")
    ELSE IF ~q.taken THEN Result(q, d, "ok")
    ELSE IF q.to.kind # "SCALAR_VAR_USE"
            \/ d[q.to.name].type # getValue(q.from, d).type
    THEN Result(q, d, "error")
    ELSE Result(q, ScalarVarUseExpr_setValue(q.to, q.from, d), "ok")

\* the source of the propagated node p is wrapped in an implicit cast to
\* the type the destination evaluates to, and evaluated
AssignmentExpr_cast(p, d, c) ==
    AssignmentExpr_store(
        [p EXCEPT !.from =
            evaluate(TypeCastExpr(p.from,
                                  EvalRes(evaluate(p.to, d, c), d, c).type,
                                  TRUE, d), d, c)], d)

\* AssignmentExpr::evaluate
AssignmentExpr_evaluate(e, d, c) ==
    AssignmentExpr_cast(AssignmentExpr_propagateType(e, d), d, c)

\* the boundary values of type t and the shift amounts around its width
Boundary(t) ==
    {v \in {getMin(t), 0 - 1, 0, 1, 2, getBitSize(t) - 1, getBitSize(t),
            getMax(t)} : InRange(v, t)}

Store(ta, va, tb, vb) ==
    [a |-> ScalarVar("a", ta, va, "NoUB"), b |-> ScalarVar("b", tb, vb, "NoUB")]

NoCtx == [n \in {} |-> 0]

\* the three interning maps, empty
NoUses == [k \in UseKinds |-> [n \in {} |-> 0]]

\* an operator node over the two variables
Flat(ops, d) ==
    {BinaryExpr(op, ScalarVarUseExpr("a"), ScalarVarUseExpr("b"), d, NoCtx)
        : op \in ops \cap BinaryOps}
    \cup
    {UnaryExpr(op, ScalarVarUseExpr("a"), d, NoCtx) : op \in ops \cap UnaryOps}

AllOps == BinaryOps \cup UnaryOps

UBOps == ArithOps \cup ShiftOps \cup {"NEGATE"}

\* the operators of the nested trees
NestOps == {"ADD", "MUL", "DIV", "SHL", "SHR", "NEGATE"}

\* an operator node over an operator node
Nested(d) ==
    {BinaryExpr(op, o, ScalarVarUseExpr("b"), d, NoCtx)
        : op \in NestOps \cap BinaryOps, o \in Flat(NestOps, d)}
    \cup
    {BinaryExpr(op, ScalarVarUseExpr("a"), o, d, NoCtx)
        : op \in ShiftOps, o \in Flat(NestOps, d)}
    \cup
    {UnaryExpr(op, o, d, NoCtx) : op \in UnaryOps, o \in Flat(NestOps, d)}

SameWide == {"UINT", "LLONG"}

MixedWide == {<<"INT", "UINT">>, <<"INT", "LLONG">>, <<"LLONG", "INT">>}

\* the operand types of the shifts
ShiftPairs == MixedWide \cup {<<t, t>> : t \in SameWide \cup {"INT"}}

\* the left operands of the shifts: negative, and with the sign bit near
ShiftLhs(t) ==
    {v \in {getMin(t), 0 - 1, 1, getMax(t)} : InRange(v, t)}

\* the shift amounts: negative, valid, the width, and beyond the width
ShiftRhs(t) ==
    {v \in {0 - 1, 1, getBitSize(t), getMax(t)} : InRange(v, t)}

\* the values of the variables under a nested operator
NestVals ==
    {<<getMin("INT"), 0 - 1>>, <<getMax("INT"), getMax("INT")>>,
     <<0 - 1, getMax("INT")>>}

Step(act, before, st, rw) ==
    [act |-> act, before |-> before, st |-> st, rw |-> rw]

\* the variables and the tree the pipeline starts from: any operator over
\* two variables of any two types; an arithmetic operator over every pair
\* of values of int, and over boundary values of wider and of mixed types;
\* a shift over the values that make it report UB, over every negative
\* left operand of int, and of 5u by every amount from the width on; a
\* nested operator
Init ==
    /\ \/ \E ta \in IntTypes, tb \in IntTypes :
                /\ data = Store(ta, 1, tb, 1)
                /\ tree \in Flat(AllOps, data)
       \/ \E va \in getMin("INT")..getMax("INT"),
             vb \in getMin("INT")..getMax("INT") :
                /\ data = Store("INT", va, "INT", vb)
                /\ tree \in Flat(ArithOps \cup UnaryOps, data)
       \/ \E t \in SameWide :
            \E va \in Boundary(t), vb \in Boundary(t) :
                /\ data = Store(t, va, t, vb)
                /\ tree \in Flat(ArithOps \cup UnaryOps, data)
       \/ \E tp \in MixedWide :
            \E va \in Boundary(tp[1]), vb \in Boundary(tp[2]) :
                /\ data = Store(tp[1], va, tp[2], vb)
                /\ tree \in Flat({"SUB"}, data)
       \/ \E tp \in ShiftPairs :
            \E va \in ShiftLhs(tp[1]), vb \in ShiftRhs(tp[2]) :
                /\ data = Store(tp[1], va, tp[2], vb)
                /\ tree \in Flat(ShiftOps, data)
       \/ \E va \in getMin("INT")..(0 - 1),
             vb \in {1, getBitSize("INT") - 1} :
                /\ data = Store("INT", va, "INT", vb)
                /\ tree \in Flat(ShiftOps, data)
       \/ \E vb \in getBitSize("UINT")..getMax("UINT") :
                /\ data = Store("UINT", 5, "UINT", vb)
                /\ tree \in Flat(ShiftOps, data)
       \/ \E v \in NestVals :
                /\ data = Store("INT", v[1], "INT", v[2])
                /\ tree \in Nested(data)
    /\ ctx = NoCtx
    /\ pc = "built"
    /\ last = Step("init", tree, "ok", <<>>)
    /\ heap = <<>>
    /\ use_set = NoUses
    /\ returned = <<>>
    /\ stream = ""

\* the type propagation pass on the whole tree
PropagateType ==
    /\ pc \in {"built", "propagated"}
    /\ tree' = propagateType(tree, data)
    /\ pc' = IF pc = "built" THEN "propagated" ELSE "propagated2"
    /\ last' = Step("propagateType", tree, "ok", <<>>)
    /\ UNCHANGED <<data, ctx, heap, use_set, returned, stream>>

\* the rebuild pass below the root: the caller rebuilds the children,
\* bottom-up, before the node
RebuildChildren ==
    /\ pc = "propagated"
    /\ \E o \in rebuildChildren(tree, data, ctx) :
        /\ tree' = o.node
        /\ pc' = IF o.st = "ok" THEN "children" ELSE "failed"
        /\ last' = Step("rebuildChildren", tree, o.st, <<>>)
    /\ UNCHANGED <<data, ctx, heap, use_set, returned, stream>>

\* rebuild of the root, whose children have been rebuilt
Rebuild ==
    /\ pc = "children"
    /\ \E o \in rebuild(tree, data, ctx) :
        /\ tree' = o.node
        /\ pc' = IF o.st = "ok" THEN "rebuilt" ELSE "failed"
        /\ last' = Step("rebuild", tree, o.st, o.rw)
    /\ UNCHANGED <<data, ctx, heap, use_set, returned, stream>>

\* one more evaluation of the rebuilt tree
Evaluate ==
    /\ pc = "rebuilt"
    /\ tree' = evaluate(tree, data, ctx)
    /\ pc' = "evaluated"
    /\ last' = Step("evaluate", tree, "ok", <<>>)
    /\ UNCHANGED <<data, ctx, heap, use_set, returned, stream>>

\* the evaluated tree is written to the output stream
Emit ==
    /\ pc = "evaluated"
    /\ stream' = stream \o emit(tree)
    /\ pc' = "emitted"
    /\ last' = Step("emit", tree, "ok", <<>>)
    /\ UNCHANGED <<tree, data, ctx, heap, use_set, returned>>

Next == PropagateType \/ RebuildChildren \/ Rebuild \/ Evaluate \/ Emit

Spec == Init /\ [][Next]_vars

TypeOK == pc \in {"built", "propagated", "propagated2", "children",
                  "rebuilt", "evaluated", "failed", "emitted"}

(***************************************************************************)
(* Subscript rebuild on one subscript node                                 *)
(***************************************************************************)
\* the largest dimension an array is declared with
MaxDim == 3

\* a store with an array, a scalar index variable and an iterator
SubStore(dims, t, v, s, e) ==
    [arr |-> Array("arr", dims),
     i |-> ScalarVar("i", t, v, "NoUB"),
     it |-> Iterator("it", ConstantExpr(t, s), ConstantExpr(t, e),
                     ConstantExpr(t, 1))]

IdxTypes == {"SHORT", "INT", "UINT", "LLONG"}

\* a point of the iteration space pinned in ctx.input
Pinned(n, t, v) == [x \in {n} |-> ScalarVar(n, t, v, "NoUB")]

StepData(act, before, st, d) ==
    [act |-> act, before |-> before, st |-> st, rw |-> <<>>, data |-> d]

SubInit ==
    /\ \E n \in 2..MaxDim, t \in IdxTypes :
        \E v \in getMin(t)..getMax(t), s \in 0..1, e \in 1..(2 * MaxDim) :
            /\ n <= getMax(t)
            /\ \/ /\ data = SubStore(<<n>>, t, v, 0, 1)
                  /\ tree \in {SubscriptExpr(ArrayUseExpr("arr"),
                                             ScalarVarUseExpr("i")),
                               SubscriptExpr(ArrayUseExpr("arr"),
                                             ConstantExpr(t, v))}
                  /\ ctx = NoCtx
               \/ /\ data = SubStore(<<n, MaxDim>>, t, v, 0, 1)
                  /\ v \in 0..n
                  /\ tree = SubscriptExpr(
                                SubscriptExpr(ArrayUseExpr("arr"),
                                              ConstantExpr(t, 0)),
                                ScalarVarUseExpr("i"))
                  /\ ctx = NoCtx
               \/ /\ data = SubStore(<<n>>, t, 0, s, e)
                  /\ v = 0
                  /\ e <= getMax(t)
                  /\ tree = SubscriptExpr(ArrayUseExpr("arr"),
                                          IterUseExpr("it"))
                  /\ ctx \in {NoCtx} \cup {Pinned("it", t, p) : p \in s..(e - 1)}
    /\ pc = "built"
    /\ last = StepData("init", tree, "ok", data)
    /\ heap = <<>>
    /\ use_set = NoUses
    /\ returned = <<>>
    /\ stream = ""

\* rebuild of the subscript node
SubRebuild ==
    /\ pc = "built"
    /\ \E r \in SubscriptExpr_rebuild(tree, data, ctx) :
        /\ tree' = r.node
        /\ data' = r.data
        /\ pc' = IF r.st = "ok" THEN "rebuilt" ELSE "failed"
        /\ last' = StepData("rebuild", tree, r.st, data)
    /\ UNCHANGED <<ctx, heap, use_set, returned, stream>>

\* an evaluation of the subscript node, as built or as rebuilt
SubEvaluate ==
    /\ pc \in {"built", "rebuilt"}
    /\ \E r \in {SubscriptExpr_evaluate(tree, data, ctx)} :
        /\ tree' = r.node
        /\ data' = r.data
        /\ pc' = IF r.st = "ok" THEN "evaluated" ELSE "failed"
        /\ last' = StepData("evaluate", tree, r.st, data)
    /\ UNCHANGED <<ctx, heap, use_set, returned, stream>>

SubNext == SubRebuild \/ SubEvaluate

SpecSub == SubInit /\ [][SubNext]_vars

(***************************************************************************)
(* Evaluation of one assignment to an output variable                      *)
(***************************************************************************)
AssignTypes == {"BOOL", "SCHAR", "INT", "UINT", "LLONG"}

\* the input variables a and b, and the output variable o the assignment
\* writes
AssignStore(to, vo, ta, va) ==
    [o |-> ScalarVar("o", to, vo, "NoUB"),
     a |-> ScalarVar("a", ta, va, "NoUB"),
     b |-> ScalarVar("b", "INT", 1, "NoUB")]

\* the sources of the assignment: a use, a constant, operators without UB,
\* one of them over the destination itself
Sources(d) ==
    {ScalarVarUseExpr("a"), ConstantExpr(d.a.type, d.a.val),
     BinaryExpr("BIT_XOR", ScalarVarUseExpr("a"), ScalarVarUseExpr("b"), d,
                NoCtx),
     BinaryExpr("BIT_OR", ScalarVarUseExpr("o"), ScalarVarUseExpr("b"), d,
                NoCtx)}

AssignInit ==
    /\ \E to \in AssignTypes, ta \in AssignTypes :
        \E vo \in {getMin(to), getMax(to)}, va \in Boundary(ta) :
            /\ data = AssignStore(to, vo, ta, va)
            /\ ctx \in {NoCtx, Pinned("a", ta, getMax(ta))}
    /\ \E src \in Sources(data) :
        \E taken \in BOOLEAN :
            tree = AssignmentExpr(ScalarVarUseExpr("o"), src, taken)
    /\ pc = "built"
    /\ last = StepData("init", tree, "ok", data)
    /\ heap = <<>>
    /\ use_set = NoUses
    /\ returned = <<>>
    /\ stream = ""

\* AssignmentExpr::evaluate on the assignment node
AssignEvaluate ==
    /\ pc \in {"built", "evaluated"}
    /\ \E r \in {AssignmentExpr_evaluate(tree, data, ctx)} :
        /\ tree' = r.node
        /\ data' = r.data
        /\ pc' = IF r.st # "ok" THEN "failed"
                 ELSE IF pc = "built" THEN "evaluated" ELSE "evaluated2"
        /\ last' = StepData("evaluate", tree, r.st, data)
    /\ UNCHANGED <<ctx, heap, use_set, returned, stream>>

AssignNext == AssignEvaluate

SpecAssign == AssignInit /\ [][AssignNext]_vars

(***************************************************************************)
(* The use-expressions the populator obtains.  heap is the sequence of the *)
(* use-expression nodes allocated so far, a node's identity its position;  *)
(* use_set holds the three interning maps, from the name of a Data object  *)
(* to a node; returned logs every request with the node it was given.      *)
(***************************************************************************)
\* the requests of one population
MaxRequests == 4

Request(act, n, id) == [act |-> act, name |-> n, ret |-> id]

UseKindOf(v) ==
    CASE v.kind = "VAR" -> "SCALAR_VAR_USE"
      [] v.kind = "ARR" -> "ARRAY_USE"
      [] v.kind = "ITER" -> "ITER_USE"

\* the node a call of init returns for the Data named n
initNode(k, n) ==
    IF n \in DOMAIN use_set[k] THEN use_set[k][n] ELSE Len(heap) + 1

\* ScalarVarUseExpr::init, ArrayUseExpr::init, IterUseExpr::init
UseExpr_init ==
    /\ Len(returned) < MaxRequests
    /\ \E n \in DOMAIN data :
        \E k \in {UseKindOf(data[n])} :
            /\ heap' = IF n \in DOMAIN use_set[k] THEN heap
                       ELSE Append(heap, [kind |-> k, name |-> n])
            /\ use_set' = [use_set EXCEPT
                              ![k] = [m \in DOMAIN @ \cup {n} |-> initNode(k, m)]]
            /\ returned' = Append(returned, Request("init", n, initNode(k, n)))
            /\ last' = Step("init", tree, "ok", <<>>)
    /\ UNCHANGED <<tree, data, ctx, pc, stream>>

\* the input variables of the external symbol table
InpVars == {"a", "b"}

\* ArithmeticExpr::create: a unary operator over a new use of an input
ArithmeticExpr_create ==
    /\ Len(returned) < MaxRequests
    /\ \E n \in InpVars, op \in UnaryOps :
        /\ heap' = Append(heap, ScalarVarUseExpr(n))
        /\ returned' = Append(returned,
                              Request("create", n, Len(heap) + 1))
        /\ tree' = UnaryExpr(op, ScalarVarUseExpr(n), data, ctx)
        /\ last' = Step("ArithmeticExpr::create", tree, "ok", <<>>)
    /\ UNCHANGED <<data, ctx, pc, use_set, stream>>

\* the name of the next new output variable
newVar == IF "o1" \in DOMAIN data THEN "o2" ELSE "o1"

\* AssignmentExpr::create: a new output variable, a new use of it, and an
\* arithmetic expression over a new use of an input
AssignmentExpr_create ==
    /\ Len(returned) + 1 < MaxRequests
    /\ "o2" \notin DOMAIN data
    /\ \E n \in InpVars, op \in UnaryOps :
        /\ data' = [m \in DOMAIN data \cup {newVar} |->
                        IF m = newVar THEN ScalarVar(newVar, "INT", 0, "NoUB")
                        ELSE data[m]]
        /\ heap' = heap \o <<ScalarVarUseExpr(newVar), ScalarVarUseExpr(n)>>
        /\ returned' = returned \o
                        <<Request("create", newVar, Len(heap) + 1),
                          Request("create", n, Len(heap) + 2)>>
        /\ tree' = AssignmentExpr(ScalarVarUseExpr(newVar),
                        UnaryExpr(op, ScalarVarUseExpr(n), data, ctx), TRUE)
        /\ last' = Step("AssignmentExpr::create", tree, "ok", <<>>)
    /\ UNCHANGED <<ctx, pc, use_set, stream>>

UseInit ==
    /\ data = [a |-> ScalarVar("a", "INT", 1, "NoUB"),
               b |-> ScalarVar("b", "UINT", 2, "NoUB"),
               arr |-> Array("arr", <<MaxDim>>),
               it |-> Iterator("it", ConstantExpr("INT", 0),
                               ConstantExpr("INT", MaxDim),
                               ConstantExpr("INT", 1))]
    /\ tree = ConstantExpr("INT", 0)
    /\ ctx = NoCtx
    /\ pc = "populate"
    /\ last = Step("start", tree, "ok", <<>>)
    /\ heap = <<>>
    /\ use_set = NoUses
    /\ returned = <<>>
    /\ stream = ""

UseNext == UseExpr_init \/ ArithmeticExpr_create \/ AssignmentExpr_create

SpecUse == UseInit /\ [][UseNext]_vars

(***************************************************************************)
(* Construction of a cast over one operand                                 *)
(***************************************************************************)
\* the operands a cast is built over: a scalar use, a constant, an array use
CastOperands(d) ==
    {ScalarVarUseExpr("i"), ConstantExpr(d.i.type, d.i.val),
     ArrayUseExpr("arr")}

\* the target types: the integral types and the type of an array
CastTargets == IntTypes \cup {"ARRAY"}

CastStep(before, st, to) ==
    [act |-> "TypeCastExpr", before |-> before, st |-> st, rw |-> <<>>,
     to |-> to]

CastInit ==
    /\ \E t \in IntTypes :
        \E v \in Boundary(t) :
            /\ data = SubStore(<<MaxDim>>, t, v, 0, 1)
            /\ tree \in CastOperands(data)
    /\ ctx = NoCtx
    /\ pc = "built"
    /\ last = Step("init", tree, "ok", <<>>)
    /\ heap = <<>>
    /\ use_set = NoUses
    /\ returned = <<>>
    /\ stream = ""

\* the constructor of TypeCastExpr, explicit or implicit
CastConstruct ==
    /\ pc = "built"
    /\ \E to \in CastTargets, impl \in BOOLEAN :
        /\ tree' = TypeCastExpr(tree, to, impl, data)
        /\ pc' = IF tree'.kind = "ERROR" THEN "failed" ELSE "constructed"
        /\ last' = CastStep(tree, IF tree'.kind = "ERROR" THEN "error"
                                  ELSE "ok", to)
    /\ UNCHANGED <<data, ctx, heap, use_set, returned, stream>>

\* the cast is written to the output stream
CastEmit ==
    /\ pc = "constructed"
    /\ stream' = stream \o emit(tree)
    /\ pc' = "emitted"
    /\ last' = Step("emit", tree, "ok", <<>>)
    /\ UNCHANGED <<tree, data, ctx, heap, use_set, returned>>

CastNext == CastConstruct \/ CastEmit

SpecCast == CastInit /\ [][CastNext]_vars

(***************************************************************************)
(* Evaluation of a tree after its input has changed                        *)
(***************************************************************************)
EvalTypes == {"SCHAR", "INT", "UINT"}

\* the values of the input variable a, before and after the change
EvalVals == (0 - 2)..2

\* operators over the variables, and operators over an operator
EvalTrees(d) ==
    Flat({"ADD", "SUB", "LT", "BIT_XOR", "SHR", "LOG_AND"} \cup UnaryOps, d)
    \cup
    {UnaryExpr(op, o, d, NoCtx)
        : op \in UnaryOps, o \in Flat({"ADD", "BIT_XOR", "PLUS"}, d)}
    \cup
    {BinaryExpr("SUB", o, ScalarVarUseExpr("b"), d, NoCtx)
        : o \in Flat({"ADD", "NEGATE"}, d)}

EvalInit ==
    /\ \E t \in EvalTypes :
        \E v \in EvalVals :
            /\ InRange(v, t)
            /\ data = Store(t, v, "INT", 1)
    /\ \E e \in EvalTrees(data) : tree = propagateType(e, data)
    /\ ctx = NoCtx
    /\ pc = "built"
    /\ last = StepData("init", tree, "ok", data)
    /\ heap = <<>>
    /\ use_set = NoUses
    /\ returned = <<>>
    /\ stream = ""

\* the input variable a gets another value
EvalSetValue ==
    /\ pc = "built"
    /\ \E v \in EvalVals :
        /\ InRange(v, data.a.type)
        /\ v # data.a.val
        /\ data' = [data EXCEPT !.a.val = v]
    /\ pc' = "changed"
    /\ last' = StepData("setValue", tree, "ok", data)
    /\ UNCHANGED <<tree, ctx, heap, use_set, returned, stream>>

\* the input variable a is pinned to another value in ctx.input
EvalPin ==
    /\ pc = "built"
    /\ \E v \in EvalVals :
        /\ InRange(v, data.a.type)
        /\ v # data.a.val
        /\ ctx' = Pinned("a", data.a.type, v)
    /\ pc' = "changed"
    /\ last' = StepData("pin", tree, "ok", data)
    /\ UNCHANGED <<tree, data, heap, use_set, returned, stream>>

\* evaluate on the root of the tree
EvalTree ==
    /\ pc = "changed"
    /\ tree' = evaluate(tree, data, ctx)
    /\ pc' = "evaluated"
    /\ last' = StepData("evaluate", tree, "ok", data)
    /\ UNCHANGED <<data, ctx, heap, use_set, returned, stream>>

EvalNext == EvalSetValue \/ EvalPin \/ EvalTree

SpecEval == EvalInit /\ [][EvalNext]_vars

(***************************************************************************)
(* The command line.  heap is argv without the program name, ctx the       *)
(* position argv_iter of the parse loop, data the Options object, returned *)
(* the options handled so far, each with the value its action was given.   *)
(***************************************************************************)
\* the largest number of arguments on the command line
MaxArgs == 3

OptionDescr(kind, short_arg, long_arg, has_value) ==
    [kind |-> kind, short_arg |-> short_arg, long_arg |-> long_arg,
     has_value |-> has_value]

options_set ==
    <<OptionDescr("HELP", "-h", "--help", FALSE),
      OptionDescr("VERSION", "-v", "--version", FALSE),
      OptionDescr("SEED", "-s", "--seed", TRUE),
      OptionDescr("STD", "", "--std", TRUE),
      OptionDescr("ASSERTS", "", "--asserts", TRUE),
      OptionDescr("INP_AS_ARGS", "", "--inp-as-args", TRUE),
      OptionDescr("EMIT_ALIGN_ATTR", "", "--emit-align-attr", TRUE),
      OptionDescr("UNIQUE_ALIGN_SIZE", "", "--unique-align-size", FALSE),
      OptionDescr("ALIGN_SIZE", "", "--align-size", TRUE),
      OptionDescr("ALLOW_DEAD_DATA", "", "--allow-dead-data", FALSE),
      OptionDescr("EMIT_PRAGMAS", "", "--emit-pragmas", TRUE),
      OptionDescr("OUT_DIR", "-o", "--out-dir", TRUE)>>

\* the Options object before parse: the defaults of the options
Options ==
    [seed |-> 0, std |-> "CXX", use_asserts |-> "SOME", inp_as_args |-> "SOME",
     emit_align_attr |-> "SOME", unique_align_size |-> FALSE,
     align_size |-> "MAX_ALIGNMENT_SIZE", allow_dead_data |-> FALSE,
     emit_pragmas |-> "SOME", out_dir |-> "."]

\* what an action leaves: the options, or the exit of the process
Parsed(o) == [st |-> "ok", opts |-> o]

printHelpAndExit(o) == [st |-> "exit", opts |-> o]

RECURSIVE readSizeT(_, _, _)
\* the extraction of a size_t from the text s: its leading decimal digits
readSizeT(s, i, acc) ==
    IF i > Len(s) \/ \A d \in 0..9 : SubSeq("0123456789", d + 1, d + 1) # SubSeq(s, i, i)
    THEN acc
    ELSE readSizeT(s, i + 1,
                   acc * 10 + CHOOSE d \in 0..9 :
                                 SubSeq("0123456789", d + 1, d + 1) = SubSeq(s, i, i))

parseSeed(val, o) == Parsed([o EXCEPT !.seed = readSizeT(val, 1, 0)])

parseStandard(val, o) ==
    IF val = "c++" THEN Parsed([o EXCEPT !.std = "CXX"])
    ELSE IF val = "ispc" THEN Parsed([o EXCEPT !.std = "ISPC"])
    ELSE IF val = "sycl" THEN Parsed([o EXCEPT !.std = "SYCL"])
    ELSE printHelpAndExit(o)

\* parseAsserts, parseInpAsArgs, parseEmitAlignAttr and parseEmitPragmas,
\* which store an OptionLevel in the field f
parseLevel(f, val, o) ==
    IF val = "none" THEN Parsed([o EXCEPT ![f] = "NONE"])
    ELSE IF val = "some" THEN Parsed([o EXCEPT ![f] = "SOME"])
    ELSE IF val = "all" THEN Parsed([o EXCEPT ![f] = "ALL"])
    ELSE printHelpAndExit(o)

\* parseUniqueAlignSize and parseAllowDeadData, which store a flag in f
parseFlag(f, val, o) ==
    IF val = "" THEN Parsed([o EXCEPT ![f] = TRUE])
    ELSE IF val = "false" THEN Parsed([o EXCEPT ![f] = FALSE])
    ELSE printHelpAndExit(o)

\* parseAlignSize that leaves the unique-align-size option alone
parseAlignSize_size_only(val, o) ==
    IF val = "rand" THEN Parsed(o)
    ELSE IF val = "16" THEN Parsed([o EXCEPT !.align_size = "A16"])
    ELSE IF val = "32" THEN Parsed([o EXCEPT !.align_size = "A32"])
    ELSE IF val = "64" THEN Parsed([o EXCEPT !.align_size = "A64"])
    ELSE printHelpAndExit(o)

parseAlignSize(val, o) ==
    IF val = "rand" THEN Parsed(o)
    ELSE IF val = "16"
    THEN Parsed([o EXCEPT !.align_size = "A16", !.unique_align_size = TRUE])
    ELSE IF val = "32"
    THEN Parsed([o EXCEPT !.align_size = "A32", !.unique_align_size = TRUE])
    ELSE IF val = "64"
    THEN Parsed([o EXCEPT !.align_size = "A64", !.unique_align_size = TRUE])
    ELSE printHelpAndExit(o)

parseOutDir(val, o) == Parsed([o EXCEPT !.out_dir = val])

\* the action of the option of the given kind
getAction(kind, val, o) ==
    CASE kind = "SEED" -> parseSeed(val, o)
      [] kind = "STD" -> parseStandard(val, o)
      [] kind = "ASSERTS" -> parseLevel("use_asserts", val, o)
      [] kind = "INP_AS_ARGS" -> parseLevel("inp_as_args", val, o)
      [] kind = "EMIT_ALIGN_ATTR" -> parseLevel("emit_align_attr", val, o)
      [] kind = "UNIQUE_ALIGN_SIZE" -> parseFlag("unique_align_size", val, o)
      [] kind = "ALIGN_SIZE" -> parseAlignSize(val, o)
      [] kind = "ALLOW_DEAD_DATA" -> parseFlag("allow_dead_data", val, o)
      [] kind = "EMIT_PRAGMAS" -> parseLevel("emit_pragmas", val, o)
      [] kind = "OUT_DIR" -> parseOutDir(val, o)
      [] OTHER -> printHelpAndExit(o)

optionStartsWith(option, test) ==
    Len(option) >= Len(test) /\ SubSeq(option, 1, Len(test)) = test

\* what parseLongArg and parseShortArg find: no match, an error, or the
\* value for the action and the number of further arguments consumed
NoMatch == [m |-> "none", val |-> "", skip |-> 0]

BadArg == [m |-> "exit", val |-> "", skip |-> 0]

Action(val, skip) == [m |-> "action", val |-> val, skip |-> skip]

\* parseLongArg on the argument with the text long of the option
parseLongArg_text(arg, long, has_value) ==
    IF ~optionStartsWith(arg, long) THEN NoMatch
    ELSE IF has_value
    THEN IF Len(arg) = Len(long) THEN BadArg
         ELSE Action(SubSeq(arg, Len(long) + 1, Len(arg)), 0)
    ELSE IF Len(arg) = Len(long) THEN Action("", 0) ELSE BadArg

parseLongArg(argv, i, option) ==
    parseLongArg_text(argv[i],
                      option.long_arg \o (IF option.has_value THEN "=" ELSE ""),
                      option.has_value)

parseShortArg(argv, i, option) ==
    IF argv[i] # option.short_arg THEN NoMatch
    ELSE IF option.has_value
    THEN IF i + 1 > Len(argv) THEN BadArg ELSE Action(argv[i + 1], 1)
    ELSE Action("", 0)

parseLongAndShortArgs(argv, i, option) ==
    IF parseLongArg(argv, i, option).m # "none"
    THEN parseLongArg(argv, i, option)
    ELSE parseShortArg(argv, i, option)

\* the options that take the argument at position i
Matching(argv, i) ==
    {k \in DOMAIN options_set :
        parseLongAndShortArgs(argv, i, options_set[k]).m # "none"}

\* the first of them, in the order of options_set
item(argv, i) ==
    options_set[CHOOSE k \in Matching(argv, i) :
                    \A j \in Matching(argv, i) : k <= j]

\* the arguments of the command lines
Args ==
    {"--align-size=16", "--align-size=32", "--align-size=64",
     "--align-size=rand", "--unique-align-size", "--unique-align-size=false",
     "--asserts=all", "--asserts=none", "-o", "--seed=12", "--align"}

RECURSIVE ArgSeqs(_)
\* the sequences of at most n arguments
ArgSeqs(n) ==
    IF n = 0 THEN {<<>>}
    ELSE ArgSeqs(n - 1)
         \cup {Append(q, a) : q \in {x \in ArgSeqs(n - 1) : Len(x) = n - 1},
                              a \in Args}

OptInit ==
    /\ heap \in ArgSeqs(MaxArgs)
    /\ data = Options
    /\ ctx = 1
    /\ returned = <<>>
    /\ pc = "parsing"
    /\ last = StepData("init", "", "ok", data)
    /\ tree = <<>>
    /\ use_set = NoUses
    /\ stream = ""

\* the iteration of the loop of parse on an argument that the option it
\* has found takes: the action of it has run, or the argument was bad
ParseItem(it, r) ==
    /\ \E h \in {IF r.m = "exit" THEN printHelpAndExit(data)
                 ELSE getAction(it.kind, r.val, data)} :
        /\ data' = h.opts
        /\ pc' = IF h.st = "ok" THEN "parsing" ELSE "exit"
        /\ last' = StepData(it.kind, r.val, h.st, data)
    /\ ctx' = ctx + r.skip + 1
    /\ returned' = Append(returned, [kind |-> it.kind, val |-> r.val])

ParseOption ==
    /\ pc = "parsing"
    /\ ctx <= Len(heap)
    /\ Matching(heap, ctx) # {}
    /\ ParseItem(item(heap, ctx),
                 parseLongAndShortArgs(heap, ctx, item(heap, ctx)))
    /\ UNCHANGED <<tree, heap, use_set, stream>>

\* no option takes the argument
ParseUnknown ==
    /\ pc = "parsing"
    /\ ctx <= Len(heap)
    /\ Matching(heap, ctx) = {}
    /\ pc' = "exit"
    /\ last' = StepData("Unknown option", heap[ctx], "exit", data)
    /\ UNCHANGED <<tree, data, ctx, heap, use_set, returned, stream>>

\* the loop of parse has run through the arguments
ParseReturn ==
    /\ pc = "parsing"
    /\ ctx > Len(heap)
    /\ pc' = "parsed"
    /\ last' = StepData("return", "", "ok", data)
    /\ UNCHANGED <<tree, data, ctx, heap, use_set, returned, stream>>

OptNext == ParseOption \/ ParseUnknown \/ ParseReturn

SpecOpt == OptInit /\ [][OptNext]_vars

(***************************************************************************)
(* The value store of a Data object.  data is the object, with its type    *)
(* and the member of the value union that belongs to the type; last holds  *)
(* the argument of set_value and what get_value returned.  The type ids    *)
(* CHAR, SHRT, LINT and LLINT of this class are SCHAR, SHORT, LONG and     *)
(* LLONG above; uint64_t has the width of ULLONG.                          *)
(***************************************************************************)
UInt64 == 0..getMax("ULLONG")

\* the low w bits of the unsigned value v
lowBits(v, w) == v % Pow2(w)

\* the value of the w-bit pattern u in a signed type of that width
asSigned(u, w) == IF u >= Pow2(w - 1) THEN u - Pow2(w) ELSE u

\* the member of the union that Variable::Variable initialises
Variable(t) == [type |-> t, value |-> getMin(t)]

\* Data::set_value: the C cast of the uint64_t to the type of the member
Data_set_value(d, v) ==
    [d EXCEPT !.value =
        CASE d.type = "BOOL" -> (IF v # 0 THEN 1 ELSE 0)
          [] getIsSigned(d.type) ->
                asSigned(lowBits(v, getBitSize(d.type)), getBitSize(d.type))
          [] OTHER -> lowBits(v, getBitSize(d.type))]

\* get_value that returns the bits of the member, the upper bits zero
Data_get_value_bits(d) ==
    IF d.value < 0 THEN d.value + Pow2(getBitSize(d.type)) ELSE d.value

\* Data::get_value: the member converted to the uint64_t that is returned
Data_get_value(d) ==
    IF d.value < 0 THEN d.value + Pow2(getBitSize("ULLONG")) ELSE d.value

DataInit ==
    /\ \E t \in IntTypes : data = Variable(t)
    /\ pc = "constructed"
    /\ last = StepData("init", 0, "ok", 0)
    /\ tree = <<>>
    /\ ctx = NoCtx
    /\ heap = <<>>
    /\ use_set = NoUses
    /\ returned = <<>>
    /\ stream = ""

\* set_value with any uint64_t
SetValue ==
    /\ pc \in {"constructed", "got"}
    /\ \E v \in UInt64 :
        /\ data' = Data_set_value(data, v)
        /\ last' = StepData("set_value", v, "ok", 0)
    /\ pc' = "set"
    /\ UNCHANGED <<tree, ctx, heap, use_set, returned, stream>>

\* get_value; last keeps the argument of the set_value before it
GetValue ==
    /\ pc = "set"
    /\ last' = StepData("get_value", last.before, "ok", Data_get_value(data))
    /\ pc' = "got"
    /\ UNCHANGED <<tree, data, ctx, heap, use_set, returned, stream>>

\* set_value(get_value()); last keeps the object as it was
SetGetValue ==
    /\ pc = "got"
    /\ data' = Data_set_value(data, Data_get_value(data))
    /\ last' = StepData("set_value(get_value())", data, "ok",
                        Data_get_value(data))
    /\ pc' = "stored"
    /\ UNCHANGED <<tree, ctx, heap, use_set, returned, stream>>

DataNext == SetValue \/ GetValue \/ SetGetValue

SpecData == DataInit /\ [][DataNext]_vars

(***************************************************************************)
(* Properties of the pipeline                                              *)
(***************************************************************************)
TypeOf(e) == getValue(e, data).type

IsOperator(e) == e.kind \in {"UNARY", "BINARY"}

ConvOps == ArithOps \cup RelOps \cup BitOps

\* the tree before the last step was an operator over leaves
OverLeaves(e) == \A n \in Nodes(e) \ {e} : ~IsOperator(n)

Propagated == pc = "propagated" /\ last.act = "propagateType"

Rebuilt == pc = "rebuilt" /\ last.act = "rebuild"

\* integral promotion and the usual arithmetic conversions as the
\* language defines them, on types
Promoted(t) == IF Rank(t) >= Rank("INT") THEN t ELSE "INT"

UsualArithType(a, b) ==
    LET s == IF getIsSigned(a) THEN a ELSE b
        u == IF getIsSigned(a) THEN b ELSE a
    IN  IF a = b THEN a
        ELSE IF getIsSigned(a) = getIsSigned(b)
        THEN (IF Rank(a) > Rank(b) THEN a ELSE b)
        ELSE IF Rank(u) >= Rank(s) THEN u
        ELSE IF getMin(s) <= getMin(u) /\ getMax(u) <= getMax(s) THEN s
        ELSE getCorrUnsigned(s)

\* the repair table of the rebuilder for the arithmetic operators
RepairTable(op, ub) ==
    CASE op = "ADD" /\ ub = "SignOvf" -> "SUB"
      [] op = "SUB" /\ ub = "SignOvf" -> "ADD"
      [] op = "MUL" /\ ub = "SignOvfMin" -> "SUB"
      [] op = "MUL" /\ ub = "SignOvf" -> "DIV"
      [] op \in {"DIV", "MOD"} /\ ub = "ZeroDiv" -> "MUL"
      [] op \in {"DIV", "MOD"} /\ ub = "SignOvf" -> "SUB"
      [] OTHER -> "none"

\* C1: after rebuild has been applied bottom-up to every node of a tree of
\* unary and binary operators over scalar operands, evaluate on every node
\* of the tree returns a value whose UB flag is clear.
C1_NoUBAfterRebuild ==
    pc \in {"rebuilt", "evaluated"} =>
        \A n \in Nodes(tree) :
            ~hasUB(EvalRes(evaluate(n, data, ctx), data, ctx))

\* a nested tree whose root needed more than one repair has been rebuilt
C1_Witness ==
    /\ Rebuilt
    /\ Len(last.rw) >= 2
    /\ \E n \in Nodes(last.before) \ {last.before} : IsOperator(n)

\* the index values an evaluated subscript node reads: the value of a
\* scalar index, every point from start to end - 1 of an iterator
IndexValues(e, d, c) ==
    IF EvalRes(e.idx, d, c).kind = "VAR" THEN {EvalRes(e.idx, d, c).val}
    ELSE {x[1].val + k : x \in {endpoints(EvalRes(e.idx, d, c), d, c)},
                         k \in 0..(2 * MaxDim)}
         \cap {v \in 0..(2 * MaxDim) :
                 \A x \in {endpoints(EvalRes(e.idx, d, c), d, c)} :
                     x[1].val <= v /\ v < x[2].val}

\* C2 as stated: after SubscriptExpr::rebuild the evaluated index lies in
\* [0, active_size), for every scalar index value of the index's type,
\* negative values and active_size included, and for every point of an
\* iterator index.
C2_Original ==
    (pc = "rebuilt" /\ last.act = "rebuild" /\ tree.kind = "SUBSCRIPT") =>
        \A v \in IndexValues(tree, data, ctx) :
            0 <= v /\ v < tree.active_size

\* rebuild has wrapped a negative scalar index in MOD and returned with
\* the index still negative
C2_Witness ==
    /\ pc = "rebuilt"
    /\ last.act = "rebuild"
    /\ tree.kind = "SUBSCRIPT"
    /\ last.before.idx.kind = "SCALAR_VAR_USE"
    /\ tree.idx.kind = "BINARY"
    /\ tree.idx.op = "MOD"
    /\ tree.idx.value.val < 0
    /\ data.arr.ub = "OutOfBounds"

\* C3 as stated: at most one use-expression node exists for a Data object,
\* and any two requests for the same Data object, through init or through
\* ArithmeticExpr::create and AssignmentExpr::create, get the same node.
C3_Original ==
    /\ \A i \in DOMAIN heap, j \in DOMAIN heap :
            heap[i].name = heap[j].name => i = j
    /\ \A i \in DOMAIN returned, j \in DOMAIN returned :
            returned[i].name = returned[j].name =>
                returned[i].ret = returned[j].ret

\* init has interned a node for an input variable and ArithmeticExpr::create
\* has returned another node for the same variable
C3_Witness ==
    \E i \in DOMAIN returned, j \in DOMAIN returned :
        /\ returned[i].act = "init"
        /\ returned[j].act = "create"
        /\ returned[i].name = returned[j].name
        /\ returned[i].ret # returned[j].ret
        /\ use_set["SCALAR_VAR_USE"][returned[i].name] = returned[i].ret

\* the value the source of the assignment evaluated to in the last step
SourceValue ==
    EvalRes(evaluate(last.before.from, last.data, ctx), last.data, ctx)

\* C4: evaluating an assignment to a scalar variable: if taken, the
\* destination Data object then holds the source value converted to the
\* destination type, every use-expression of that Data object evaluates to
\* it, and no other Data object changes; if not taken, no Data object
\* changes.
C4_AssignmentWrites ==
    (pc \in {"evaluated", "evaluated2"} /\ last.act = "evaluate"
        /\ tree.kind = "ASSIGN") =>
      IF last.before.taken
      THEN /\ data.o.val = castToType(SourceValue.val, last.data.o.type)
           /\ data.o.type = last.data.o.type
           /\ EvalRes(evaluate(ScalarVarUseExpr("o"), data, ctx),
                      data, ctx).val = data.o.val
           /\ getValue(tree.to, data).val = data.o.val
           /\ \A n \in DOMAIN data \ {"o"} : data[n] = last.data[n]
      ELSE data = last.data

\* a taken assignment has stored a value that the conversion to the
\* destination type changed, read from an input pinned in the context
C4_Witness ==
    /\ pc = "evaluated"
    /\ last.act = "evaluate"
    /\ tree.kind = "ASSIGN"
    /\ last.before.taken
    /\ last.before.from.kind = "SCALAR_VAR_USE"
    /\ "a" \in DOMAIN ctx
    /\ SourceValue.val # last.data.a.val
    /\ data.o.val # SourceValue.val
    /\ data.o.val # last.data.o.val

\* C5 as stated: after propagateType the two operands of every binary
\* node, whatever its operator, have one type of rank >= INT.
C5_Original ==
    Propagated =>
        \A n \in Nodes(tree) :
            n.kind = "BINARY" =>
                /\ TypeOf(n.lhs) = TypeOf(n.rhs)
                /\ Rank(TypeOf(n.lhs)) >= Rank("INT")

\* C5 as amended: after propagateType the two operands of an arithmetic,
\* relational or bitwise node have one type of rank >= INT; the operands of
\* a shift have rank >= INT each; the operands of a logical node are BOOL.
C5_OperandTypes ==
    Propagated =>
        \A n \in Nodes(tree) :
            n.kind = "BINARY" =>
                CASE n.op \in ConvOps ->
                        /\ TypeOf(n.lhs) = TypeOf(n.rhs)
                        /\ Rank(TypeOf(n.lhs)) >= Rank("INT")
                  [] n.op \in ShiftOps ->
                        /\ Rank(TypeOf(n.lhs)) >= Rank("INT")
                        /\ Rank(TypeOf(n.rhs)) >= Rank("INT")
                  [] OTHER ->
                        /\ TypeOf(n.lhs) = "BOOL"
                        /\ TypeOf(n.rhs) = "BOOL"

\* a shift whose promoted operands keep two different types, and a logical
\* node, have been propagated
C5_Witness ==
    /\ Propagated
    /\ tree.kind = "BINARY"
    /\ tree.op \in ShiftOps
    /\ TypeOf(tree.lhs) # TypeOf(tree.rhs)

\* C6: after propagateType the operands of an arithmetic, relational or
\* bitwise node have the one type the five rules of the usual arithmetic
\* conversions give for the two promoted operand types, of rank >= INT;
\* SUB(1 : int, 2 : unsigned int) evaluates to the maximum of unsigned int.
C6_ArithConvConformance ==
    /\ (Propagated /\ last.before.kind = "BINARY"
            /\ last.before.op \in ConvOps /\ OverLeaves(last.before)) =>
          LET t == UsualArithType(Promoted(TypeOf(last.before.lhs)),
                                  Promoted(TypeOf(last.before.rhs)))
          IN  /\ TypeOf(tree.lhs) = t
              /\ TypeOf(tree.rhs) = t
              /\ Rank(t) >= Rank("INT")
    /\ (Rebuilt /\ last.before.kind = "BINARY" /\ last.before.op = "SUB"
            /\ OverLeaves(last.before)
            /\ data.a.type = "INT" /\ data.a.val = 1
            /\ data.b.type = "UINT" /\ data.b.val = 2) =>
          /\ tree.op = "SUB"
          /\ tree.value.type = "UINT"
          /\ tree.value.val = getMax("UINT")

\* a node whose operands need the fifth rule has been propagated
C6_Witness ==
    /\ Propagated
    /\ tree.kind = "BINARY"
    /\ tree.op \in ConvOps
    /\ data.a.type = "LLONG"
    /\ data.b.type = "ULONG"
    /\ TypeOf(tree.lhs) = "ULLONG"
    /\ TypeOf(tree.rhs) = "ULLONG"

\* C7: arithConv returns through one of its five rules for every pair of
\* promoted operand types and never reaches its final ERROR; the rules 3
\* and 4 are tried with the left-hand operand first.
C7_ArithConvTotal ==
    (Propagated /\ last.before.kind = "BINARY"
        /\ last.before.op \in ConvOps /\ OverLeaves(last.before)) =>
      LET lt == Promoted(TypeOf(last.before.lhs))
          rt == Promoted(TypeOf(last.before.rhs))
          rule == arithConvRule(lt, rt)
      IN  /\ rule # "unreachable"
          /\ \A n \in Nodes(tree) : n.kind # "ERROR"
          /\ (rule \in {"3L", "3R", "4L", "4R", "5L", "5R"}) =>
                getIsSigned(lt) # getIsSigned(rt)
          /\ (lt # rt /\ getIsSigned(lt) # getIsSigned(rt)
                /\ signed_to_unsigned_conv(lt, rt)) => rule = "3L"
          /\ (rule = "4L") => ~signed_to_unsigned_conv(rt, lt)
          /\ (rule = "4R") => ~unsigned_to_signed_conv(lt, rt)

\* a pair of types that only the second try of the last rule converts
C7_Witness ==
    /\ Propagated
    /\ last.before.kind = "BINARY"
    /\ last.before.op \in ConvOps
    /\ OverLeaves(last.before)
    /\ arithConvRule(Promoted(TypeOf(last.before.lhs)),
                     Promoted(TypeOf(last.before.rhs))) = "5R"

\* C8: applying propagateType a second time changes nothing: the tree
\* keeps its shape, its casts, their target types and implicit flags.
C8_PropagateIdempotent ==
    pc = "propagated2" => tree = last.before

\* the second application ran on a tree into which the first put a cast
C8_Witness ==
    /\ pc = "propagated2"
    /\ \E n \in Nodes(tree) : n.kind = "TYPE_CAST"

\* C9: when an arithmetic node evaluates with UB, rebuild swaps its
\* operator as the repair table says and leaves both operands as they were.
C9_RepairTable ==
    (Rebuilt /\ last.before.kind = "BINARY" /\ last.before.op \in ArithOps
        /\ OverLeaves(last.before) /\ last.rw # <<>>) =>
      /\ RepairTable(last.before.op, last.rw[1].ub) # "none"
      /\ tree.op = RepairTable(last.before.op, last.rw[1].ub)
      /\ tree.lhs = last.before.lhs
      /\ tree.rhs = last.before.rhs

\* a division by zero has been repaired
C9_Witness ==
    /\ Rebuilt
    /\ last.before.kind = "BINARY"
    /\ last.before.op \in {"DIV", "MOD"}
    /\ OverLeaves(last.before)
    /\ last.rw # <<>>
    /\ last.rw[1].ub = "ZeroDiv"
    /\ tree.op = "MUL"

\* C10: one operator swap is enough: an arithmetic node over two values of
\* a signed type that evaluates with UB is rewritten once and then
\* evaluates with UB clear; ADD(INT_MAX, 1) becomes SUB with value
\* INT_MAX - 1 and a division by zero becomes MUL with value 0.
C10_OneSwapEnough ==
    (pc \in {"rebuilt", "failed"} /\ last.act = "rebuild"
        /\ last.before.kind = "BINARY" /\ last.before.op \in ArithOps
        /\ OverLeaves(last.before) /\ last.rw # <<>>) =>
      /\ last.st = "ok"
      /\ Len(last.rw) = 1
      /\ ~hasUB(tree.value)
      /\ (last.before.op = "ADD" /\ data.a.type = "INT"
            /\ data.a.val = getMax("INT") /\ data.b.type = "INT"
            /\ data.b.val = 1) =>
                tree.op = "SUB" /\ tree.value.val = getMax("INT") - 1
      /\ (last.before.op = "DIV" /\ data.a.type = "INT"
            /\ data.b.type = "INT" /\ data.b.val = 0) =>
                tree.op = "MUL" /\ tree.value.val = 0

\* the multiplication TYPE_MIN * -1 has been repaired
C10_Witness ==
    /\ Rebuilt
    /\ last.before.kind = "BINARY"
    /\ last.before.op = "MUL"
    /\ OverLeaves(last.before)
    /\ data.a.type = "INT"
    /\ data.b.type = "INT"
    /\ Len(last.rw) = 1
    /\ last.rw[1].ub = "SignOvfMin"

(***************************************************************************)
(* Properties of the shift repairs                                         *)
(***************************************************************************)
RECURSIVE Descend(_, _)
\* the node n steps down the left operands of e
Descend(e, n) == IF n = 0 THEN e ELSE Descend(e.lhs, n - 1)

RhsRepairs == {"ShiftRhsLarge", "ShiftRhsNeg"}

\* the number of rewrites after the i-th that replaced the same operand
Later(rw, i) ==
    Cardinality({j \in DOMAIN rw :
                    /\ j > i
                    /\ (rw[j].ub \in RhsRepairs) = (rw[i].ub \in RhsRepairs)})

\* the operand the i-th rewrite of the last rebuild put in place
Repaired(i) ==
    Descend(IF last.rw[i].ub \in RhsRepairs THEN tree.rhs ELSE tree.lhs,
            Later(last.rw, i))

\* the value of the operand the i-th rewrite replaced
Replaced(i) == getValue(Repaired(i).lhs, data)

\* rebuild has run on a shift over two variables
ShiftRebuilt ==
    /\ pc \in {"rebuilt", "failed"}
    /\ last.act = "rebuild"
    /\ last.before.kind = "BINARY"
    /\ last.before.op \in ShiftOps
    /\ OverLeaves(last.before)

\* the shift amount the tree started with is valid for the width of the LHS
RhsInRange == data.b.val \in 0..(getBitSize(TypeOf(last.before.lhs)) - 1)

\* C11 as stated: on NegShift rebuild replaces the LHS by ADD(LHS,
\* TYPE_MAX) and leaves operator and RHS alone; for every negative LHS
\* the new LHS evaluates without overflow to a non-negative value and the
\* shift with the original in-range RHS is then well-defined.
C11_Original ==
    ShiftRebuilt =>
        \A i \in DOMAIN last.rw :
            last.rw[i].ub = "NegShift" =>
              /\ tree.op = last.before.op
              /\ Repaired(i).op = "ADD"
              /\ ~hasUB(Repaired(i).value)
              /\ Repaired(i).value.val >= 0
              /\ RhsInRange =>
                    /\ last.rw = <<Rewrite("NegShift", 0)>>
                    /\ tree.rhs = last.before.rhs
                    /\ ~hasUB(tree.value)

\* C11: on NegShift rebuild replaces the LHS by ADD(LHS, TYPE_MAX of its
\* type) and leaves the operator alone, and the RHS too unless a later
\* rewrite repairs the shift amount; the new LHS evaluates without
\* overflow to LHS + TYPE_MAX, which is non-negative for every negative
\* LHS but TYPE_MIN; for TYPE_MIN it is -1 and NegShift is repaired a
\* second time; SHR with the original in-range RHS is then well-defined.
C11_NegShiftRepair ==
    ShiftRebuilt =>
        \A i \in DOMAIN last.rw :
            last.rw[i].ub = "NegShift" =>
              /\ tree.op = last.before.op
              /\ Repaired(i).kind = "BINARY"
              /\ Repaired(i).op = "ADD"
              /\ Repaired(i).rhs = ConstantExpr(Replaced(i).type,
                                                getMax(Replaced(i).type))
              /\ (i = 1) => Repaired(i).lhs = last.before.lhs
              /\ Replaced(i).val < 0
              /\ ~hasUB(Repaired(i).value)
              /\ Repaired(i).value.val
                    = Replaced(i).val + getMax(Replaced(i).type)
              /\ (Replaced(i).val # getMin(Replaced(i).type)) =>
                    Repaired(i).value.val >= 0
              /\ (Replaced(i).val = getMin(Replaced(i).type)) =>
                    /\ Repaired(i).value.val = 0 - 1
                    /\ i + 1 \in DOMAIN last.rw
                    /\ last.rw[i + 1].ub = "NegShift"
              /\ (\A j \in DOMAIN last.rw : last.rw[j].ub = "NegShift") =>
                    tree.rhs = last.before.rhs
              /\ (last.before.op = "SHR" /\ RhsInRange) =>
                    /\ last.st = "ok"
                    /\ \A j \in DOMAIN last.rw : last.rw[j].ub = "NegShift"
                    /\ ~hasUB(tree.value)

\* SHR of -1 has been repaired: its LHS is a + INT_MAX of value INT_MAX - 1
C11_Witness ==
    /\ ShiftRebuilt
    /\ last.before.op = "SHR"
    /\ data.a.type = "INT"
    /\ data.a.val = 0 - 1
    /\ data.b.val = getBitSize("INT") - 1
    /\ last.rw = <<Rewrite("NegShift", 0)>>
    /\ tree.lhs.value.val = getMax("INT") - 1
    /\ ~hasUB(tree.value)

\* the i-th rewrite is the first that replaced the RHS
FirstRhsRepair(i) ==
    \A j \in DOMAIN last.rw : j < i => last.rw[j].ub \notin RhsRepairs

\* C12: on ShiftRhsLarge, with r the magnitude of the current RHS and k the
\* drawn value, rebuild replaces the RHS by SUB(RHS, C) with the constant
\* C = r - k of the RHS's type; k <= r, so C does not wrap below zero; the
\* new RHS evaluates to exactly k with UB clear; the operator is unchanged
\* and so is the LHS; SHR(5u, b) with b beyond the width and k = 2 shifts
\* by 2 and has value 1.
C12_ShiftRhsLarge ==
    ShiftRebuilt =>
        \A i \in DOMAIN last.rw :
            last.rw[i].ub = "ShiftRhsLarge" =>
              /\ tree.op = last.before.op
              /\ last.rw[i].k \in 0..Abs(Replaced(i).val)
              /\ last.rw[i].k <= getBitSize(TypeOf(tree.lhs))
              /\ Repaired(i).kind = "BINARY"
              /\ Repaired(i).op = "SUB"
              /\ FirstRhsRepair(i) => Repaired(i).lhs = last.before.rhs
              /\ Repaired(i).rhs
                    = ConstantExpr(Replaced(i).type,
                                   Abs(Replaced(i).val) - last.rw[i].k)
              /\ Repaired(i).rhs.value.val
                    = Abs(Replaced(i).val) - last.rw[i].k
              /\ ~hasUB(Repaired(i).value)
              /\ Repaired(i).value.val = last.rw[i].k
              /\ (\A j \in DOMAIN last.rw : last.rw[j].ub # "NegShift") =>
                    tree.lhs = last.before.lhs
              /\ (/\ last.before.op = "SHR"
                  /\ data.a.type = "UINT"
                  /\ data.a.val = 5
                  /\ last.rw = <<Rewrite("ShiftRhsLarge", 2)>>) =>
                    /\ EvalRes(tree.rhs, data, ctx).val = 2
                    /\ tree.value.val = 1
                    /\ ~hasUB(tree.value)

\* SHR(5u, b) with b beyond the width has been repaired with the draw 2
C12_Witness ==
    /\ ShiftRebuilt
    /\ last.before.op = "SHR"
    /\ data.a.type = "UINT"
    /\ data.a.val = 5
    /\ data.b.val = getMax("UINT") - 2
    /\ last.rw = <<Rewrite("ShiftRhsLarge", 2)>>
    /\ tree.rhs.rhs.value.val = data.b.val - 2
    /\ tree.value.val = 1

\* C13 as stated: on ShiftRhsNeg, with r the magnitude of the RHS, k the
\* drawn value and W the bit-width of the promoted LHS type, rebuild
\* replaces the RHS by ADD(RHS, C) with C = min(k + r, W), whatever the
\* types of the two operands, also when their widths differ.
C13_Original ==
    ShiftRebuilt =>
        \A i \in DOMAIN last.rw :
            last.rw[i].ub = "ShiftRhsNeg" =>
              /\ Repaired(i).op = "ADD"
              /\ Repaired(i).rhs
                    = ConstantExpr(Replaced(i).type,
                                   Min2(last.rw[i].k + Abs(Replaced(i).val),
                                        getBitSize(TypeOf(tree.lhs))))

\* a negative amount of a type wider than the LHS has been repaired with
\* a constant above the width of the LHS
C13_Witness ==
    /\ ShiftRebuilt
    /\ getBitSize(data.a.type) < getBitSize(data.b.type)
    /\ last.rw # <<>>
    /\ last.rw[1].ub = "ShiftRhsNeg"
    /\ Repaired(1).op = "ADD"
    /\ Repaired(1).rhs.value.val > getBitSize(data.a.type)

(***************************************************************************)
(* Properties of the do-while of rebuild                                   *)
(***************************************************************************)
\* rebuild has run on an operator over variables
NodeRebuilt ==
    /\ pc \in {"rebuilt", "failed"}
    /\ last.act = "rebuild"
    /\ IsOperator(last.before)
    /\ OverLeaves(last.before)

\* C14 as stated: a node that still evaluates with UB after its rewrite and
\* one recursive repair makes rebuild stop with a fatal error; rebuild
\* does not rewrite the node a third time.
C14_Original ==
    (NodeRebuilt /\ Len(last.rw) > 2) => last.st = "error"

\* rebuild has returned from a node it rewrote three times
C14_Witness ==
    /\ NodeRebuilt
    /\ pc = "rebuilt"
    /\ last.st = "ok"
    /\ Len(last.rw) = 3
    /\ ~hasUB(tree.value)

\* C15 as stated: rebuild returns after finitely many rewrites, whatever
\* the operator, the operand values and the values drawn for the shift
\* repair: no rebuild is still rewriting after MaxRewrites rewrites.
C15_Original ==
    NodeRebuilt => last.st # "diverged"

\* every draw was the largest one, max_valid = the width of the LHS, and
\* each rewrite left the shift amount at the width, where it started: the
\* node reports ShiftRhsLarge after every rewrite as it did before it
C15_Witness ==
    /\ NodeRebuilt
    /\ last.st = "diverged"
    /\ Len(last.rw) = MaxRewrites
    /\ data.b.val = getBitSize(TypeOf(tree.lhs))
    /\ \A i \in DOMAIN last.rw :
            /\ last.rw[i] = Rewrite("ShiftRhsLarge",
                                    getBitSize(TypeOf(tree.lhs)))
            /\ Repaired(i).rhs.value.val = 0
            /\ Repaired(i).value.val = data.b.val
    /\ tree.lhs = last.before.lhs
    /\ tree.value.ub = "ShiftRhsLarge"

(***************************************************************************)
(* Properties of the emitter                                               *)
(***************************************************************************)
\* C16 as stated: a binary node is emitted as ((a) op (b)), in an outer
\* pair of parentheses with each operand in its own pair, so ((a) - (b))
\* for SUB over a and b; a unary node is emitted as (op(a)).
C16_Original ==
    pc = "emitted" =>
      /\ \A n \in Nodes(tree) :
            /\ n.kind = "BINARY" =>
                    emit(n) = "((" \o emit(n.lhs) \o ")"
                                \o BinaryExpr_symbol(n.op)
                                \o "(" \o emit(n.rhs) \o "))"
            /\ n.kind = "UNARY" =>
                    emit(n) = "(" \o UnaryExpr_symbol(n.op)
                                \o "(" \o emit(n.arg) \o "))"
      /\ tree.kind \in {"BINARY", "UNARY"} => stream = emit(tree)
      /\ (/\ tree.kind = "BINARY"
          /\ tree.op = "SUB"
          /\ tree.lhs = ScalarVarUseExpr("a")
          /\ tree.rhs = ScalarVarUseExpr("b")) => stream = "((a) - (b))"

\* ADD(INT_MAX, 1), rebuilt to SUB, has been emitted without the outer
\* pair of parentheses
C16_Witness ==
    /\ pc = "emitted"
    /\ tree.kind = "BINARY"
    /\ tree.op = "SUB"
    /\ data.a.val = getMax("INT")
    /\ data.b.val = 1
    /\ stream = "(a) - (b)"

(***************************************************************************)
(* Properties of the construction of a cast                                *)
(***************************************************************************)
CastBuilt == pc \in {"constructed", "failed"} /\ last.act = "TypeCastExpr"

\* C17 as stated: constructing a cast succeeds exactly when the operand's
\* type and the target type are both integral or both array types.
C17_Original ==
    CastBuilt =>
        (last.st = "ok" <=>
            \/ isIntType(TypeOf(last.before)) /\ isIntType(last.to)
            \/ isArrayType(TypeOf(last.before)) /\ isArrayType(last.to))

\* the construction of a cast of an array to an array type has failed
C17_Witness ==
    /\ CastBuilt
    /\ last.before = ArrayUseExpr("arr")
    /\ last.to = "ARRAY"
    /\ last.st = "error"
    /\ pc = "failed"

(***************************************************************************)
(* Properties of the evaluation of a subscript                             *)
(***************************************************************************)
\* evaluate has run on a subscript of the array itself
SubEvaluated ==
    /\ pc = "evaluated"
    /\ last.act = "evaluate"
    /\ tree.kind = "SUBSCRIPT"
    /\ tree.array.kind = "ARRAY_USE"

\* C18 as stated: evaluate sets OutOfBounds exactly when the index is
\* outside [0, active_size): for a scalar index of value v if and only if
\* v < 0 or v >= active_size, so also for v = active_size; for an iterator
\* index if and only if its start or its end is outside the range an end
\* point may take, [0, active_size].
C18_Original ==
    SubEvaluated =>
        IF EvalRes(tree.idx, data, ctx).kind = "VAR"
        THEN (data.arr.ub = "OutOfBounds") <=>
                \/ EvalRes(tree.idx, data, ctx).val < 0
                \/ EvalRes(tree.idx, data, ctx).val >= tree.active_size
        ELSE (data.arr.ub = "OutOfBounds") <=>
                \E x \in {endpoints(EvalRes(tree.idx, data, ctx), data, ctx)} :
                    \E i \in 1..2 :
                        x[i].val < 0 \/ x[i].val > tree.active_size

\* a scalar index equal to active_size has been evaluated with UB clear
C18_Witness ==
    /\ SubEvaluated
    /\ EvalRes(tree.idx, data, ctx).kind = "VAR"
    /\ EvalRes(tree.idx, data, ctx).val = tree.active_size
    /\ data.arr.ub = "NoUB"

RECURSIVE Depth(_)
\* the number of subscripts between a base expression and the array use
Depth(a) == IF a.kind = "ARRAY_USE" THEN 0 ELSE 1 + Depth(a.array)

\* C19 as stated: in a chain of nested subscripts over an array with n
\* dimensions the k-th subscript from the array use has active_dim = k and
\* active_size = dims[k]; its value is a scalar element of the array when
\* active_dim = n - 1 and an array otherwise.
C19_Original ==
    (pc = "evaluated" /\ last.act = "evaluate" /\ tree.kind = "SUBSCRIPT") =>
        \A s \in {x \in Nodes(tree) : x.kind = "SUBSCRIPT"} :
            /\ s.active_dim = Depth(s.array)
            /\ s.active_size = data.arr.dims[Depth(s.array) + 1]
            /\ IF s.active_dim = Len(data.arr.dims) - 1
               THEN getValue(s, data).kind = "VAR"
               ELSE getValue(s, data).kind = "ARR"

\* the second subscript of a chain over an array with two dimensions has
\* been evaluated: it selects into the last dimension and its value is
\* the array
C19_Witness ==
    /\ pc = "evaluated"
    /\ last.act = "evaluate"
    /\ tree.kind = "SUBSCRIPT"
    /\ tree.array.kind = "SUBSCRIPT"
    /\ Len(data.arr.dims) = 2
    /\ tree.array.active_dim = 0
    /\ tree.active_dim = 1
    /\ tree.active_size = data.arr.dims[2]
    /\ getValue(tree, data) = data.arr

(***************************************************************************)
(* Properties of the unary repair                                          *)
(***************************************************************************)
\* rebuild has run on a unary operator over a variable
UnaryRebuilt ==
    /\ pc \in {"rebuilt", "failed"}
    /\ last.act = "rebuild"
    /\ last.before.kind = "UNARY"
    /\ OverLeaves(last.before)

\* the operand of the unary node is the minimum of a signed type
MinOperand ==
    /\ getIsSigned(TypeOf(last.before.arg))
    /\ getValue(last.before.arg, data).val = getMin(TypeOf(last.before.arg))

\* C20: NEGATE evaluates with SignOvf exactly when its operand is the
\* minimum of a signed type; rebuild then turns the operator into PLUS,
\* keeps the operand, and the node evaluates to the operand's value with UB
\* clear; PLUS, LOG_NOT and BIT_NOT never evaluate with UB, so rebuild
\* leaves them alone and never reaches its ERROR.
C20_UnaryRepair ==
    /\ (pc \in {"children", "rebuilt", "failed"}
            /\ last.act \in {"rebuildChildren", "rebuild"}) =>
                last.st # "error"
    /\ UnaryRebuilt =>
          /\ last.st = "ok"
          /\ ~hasUB(tree.value)
          /\ tree.arg = last.before.arg
          /\ (last.rw # <<>>) <=> (last.before.op = "NEGATE" /\ MinOperand)
          /\ (last.rw # <<>>) =>
                /\ last.rw = <<Rewrite("SignOvf", 0)>>
                /\ tree.op = "PLUS"
                /\ tree.value.val = getValue(tree.arg, data).val
          /\ (last.rw = <<>>) => tree.op = last.before.op

\* NEGATE of INT_MIN has been repaired
C20_Witness ==
    /\ UnaryRebuilt
    /\ last.before.op = "NEGATE"
    /\ data.a.type = "INT"
    /\ data.a.val = getMin("INT")
    /\ last.rw = <<Rewrite("SignOvf", 0)>>
    /\ tree.op = "PLUS"
    /\ tree.value.val = getMin("INT")
    /\ ~hasUB(tree.value)

(***************************************************************************)
(* Properties of evaluate                                                  *)
(***************************************************************************)
\* the value evaluate on the operand x hands back now
FreshValue(x) == EvalRes(evaluate(x, data, ctx), data, ctx)

TreeEvaluated == pc = "evaluated" /\ last.act = "evaluate"

\* C21 as stated: UnaryExpr::evaluate recurses into its operand: its
\* result is the operator applied to the operand's value as freshly
\* evaluated under the current context, also when the operand is a
\* compound expression whose input variables have changed since.
C21_Original ==
    (TreeEvaluated /\ tree.kind = "UNARY") =>
        tree.value = resultValue(FreshValue(tree.arg).type,
                        UnaryOperator(tree.op, FreshValue(tree.arg).type,
                                      FreshValue(tree.arg).val))

\* a unary node over a binary node has been evaluated after the input of
\* the binary node changed: the binary node was not evaluated and the
\* result comes from the value it held before
C21_Witness ==
    /\ TreeEvaluated
    /\ ctx = NoCtx
    /\ tree.kind = "UNARY"
    /\ tree.op = "NEGATE"
    /\ tree.arg.kind = "BINARY"
    /\ tree.arg = last.before.arg
    /\ FreshValue(tree.arg).val # tree.arg.value.val
    /\ tree.value.val = 0 - tree.arg.value.val
    /\ tree.value.val # 0 - FreshValue(tree.arg).val

\* C22 as stated: with an override for a in ctx.input, evaluating a use of
\* a returns the override, and a binary node with that use as an operand
\* computes its result and its UB flag from the override, not from the
\* value stored in the Data object.
C22_Original ==
    (TreeEvaluated /\ "a" \in DOMAIN ctx) =>
      /\ FreshValue(ScalarVarUseExpr("a")) = ctx.a
      /\ (tree.kind = "BINARY" /\ OverLeaves(tree)) =>
            tree.value = resultValue(TypeOf(tree.lhs),
                            BinaryOperator(tree.op, TypeOf(tree.lhs),
                                           FreshValue(tree.lhs).val,
                                           FreshValue(tree.rhs).val))

\* a binary node over a use of a has been evaluated with a pinned in
\* ctx.input: its result comes from the value stored in the Data object
C22_Witness ==
    /\ TreeEvaluated
    /\ "a" \in DOMAIN ctx
    /\ tree.kind = "BINARY"
    /\ tree.op = "ADD"
    /\ tree.lhs = ScalarVarUseExpr("a")
    /\ FreshValue(tree.lhs) = ctx.a
    /\ ctx.a.val # data.a.val
    /\ tree.value.val = data.a.val + data.b.val
    /\ tree.value.val # ctx.a.val + data.b.val

\* C23 as stated: evaluate on a node that is not an assignment (here a
\* subscript node over constants, uses and a subscript) leaves every
\* declared Data object unchanged: the current value and the UB flag of
\* every scalar variable, array and iterator.
C23_Original ==
    (last.act = "evaluate" /\ tree.kind = "SUBSCRIPT") => data = last.data

\* a subscript node has been evaluated with its index out of bounds: the
\* UB flag of the declared array went from NoUB to OutOfBounds, the index
\* variable and the iterator are as they were
C23_Witness ==
    /\ pc = "evaluated"
    /\ last.act = "evaluate"
    /\ tree.kind = "SUBSCRIPT"
    /\ tree.array = ArrayUseExpr("arr")
    /\ last.data.arr.ub = "NoUB"
    /\ data.arr.ub = "OutOfBounds"
    /\ data = [last.data EXCEPT !.arr.ub = "OutOfBounds"]

(***************************************************************************)
(* Properties of rebuild on a node over rebuilt children                   *)
(***************************************************************************)
\* the operand slots of a node
Operands(e) ==
    CASE e.kind = "UNARY" -> <<e.arg>>
      [] e.kind = "BINARY" -> <<e.lhs, e.rhs>>
      [] e.kind = "TYPE_CAST" -> <<e.expr>>
      [] OTHER -> <<>>

RootRebuilt == pc \in {"rebuilt", "failed"} /\ last.act = "rebuild"

C25_Original ==
    ShiftRebuilt =>
        \A i \in DOMAIN last.rw :
            last.rw[i].ub = "ShiftRhsLarge" =>
              /\ Repaired(i).value.val
                    \in 0..(getBitSize(TypeOf(tree.lhs)) - 1)
              /\ (i + 1 \in DOMAIN last.rw) =>
                    last.rw[i + 1].ub \notin RhsRepairs
              /\ (i = Len(last.rw)) => tree.value.ub \notin RhsRepairs

\* SHR(5u, b) with b beyond the width W has been repaired with the draw
\* k = W = max_valid: the new amount is W, the shift reported ShiftRhsLarge
\* again and a second draw, W - 1, made it valid
C25_Witness ==
    /\ ShiftRebuilt
    /\ pc = "rebuilt"
    /\ last.before.op = "SHR"
    /\ data.a.type = "UINT"
    /\ data.a.val = 5
    /\ data.b.val > getBitSize("UINT")
    /\ last.rw = <<Rewrite("ShiftRhsLarge", getBitSize("UINT")),
                   Rewrite("ShiftRhsLarge", getBitSize("UINT") - 1)>>
    /\ Repaired(1).value.val = getBitSize("UINT")
    /\ Repaired(2).value.val = getBitSize("UINT") - 1
    /\ ~hasUB(tree.value)

(***************************************************************************)
(* Properties of the subscript repair                                      *)
(***************************************************************************)
\* rebuild has wrapped the index of the subscript node in MOD active_size
IndexWrapped ==
    /\ last.act = "rebuild"
    /\ tree.kind = "SUBSCRIPT"
    /\ tree.idx.kind = "BINARY"
    /\ tree.idx.op = "MOD"
    /\ tree.idx.lhs = last.before.idx

\* C26 as stated: whenever the first evaluation of SubscriptExpr::rebuild
\* reports OutOfBounds and rebuild wraps the index in MOD active_size, the
\* re-evaluation returns a value with UB clear and the assertion that
\* follows it does not fail.
C26_Original ==
    IndexWrapped =>
        /\ last.st = "ok"
        /\ ~hasUB(data.arr)

\* the index 5 of an array of 3 elements has been wrapped: the
\* re-evaluation found index 2 in bounds with UB clear, and the assertion
\* after it, which demands that the value has UB, failed
C26_Witness ==
    /\ IndexWrapped
    /\ pc = "failed"
    /\ last.st = "assert"
    /\ data.arr.dims = <<3>>
    /\ data.i.val = 5
    /\ tree.active_size = 3
    /\ EvalRes(tree.idx, data, ctx).val = 2
    /\ ~hasUB(data.arr)

(***************************************************************************)
(* Properties of repeated evaluation of an assignment                      *)
(***************************************************************************)
RECURSIVE Shape(_)
\* the shape of a tree: its nodes with their operators, types and operands,
\* without the values the nodes hold
Shape(e) ==
    CASE e.kind = "UNARY" -> <<"UNARY", e.op, Shape(e.arg)>>
      [] e.kind = "BINARY" -> <<"BINARY", e.op, Shape(e.lhs), Shape(e.rhs)>>
      [] e.kind = "TYPE_CAST" ->
            <<"TYPE_CAST", e.to_type, e.is_implicit, Shape(e.expr)>>
      [] e.kind = "ASSIGN" -> <<"ASSIGN", Shape(e.to), Shape(e.from)>>
      [] e.kind = "CONST" -> <<"CONST", e.value.type, e.value.val>>
      [] OTHER -> <<e.kind, e.name>>

RECURSIVE ImplicitCasts(_, _)
\* the number of implicit casts to type t stacked on top of e
ImplicitCasts(e, t) ==
    IF e.kind = "TYPE_CAST" /\ e.is_implicit /\ e.to_type = t
    THEN 1 + ImplicitCasts(e.expr, t)
    ELSE 0

\* C27 as stated: evaluating the same assignment node once more leaves a
\* tree with the same shape as after one evaluation, with exactly one
\* implicit cast to the destination type above the source expression.
C27_Original ==
    (pc = "evaluated2" /\ last.act = "evaluate") =>
        /\ Shape(tree) = Shape(last.before)
        /\ ImplicitCasts(tree.from, data.o.type) = 1

\* an assignment has been evaluated twice: the cast the first evaluation
\* put above the source sits under a second cast to the same type
C27_Witness ==
    /\ pc = "evaluated2"
    /\ last.act = "evaluate"
    /\ ImplicitCasts(last.before.from, data.o.type) = 1
    /\ ImplicitCasts(tree.from, data.o.type) = 2
    /\ Shape(tree.from.expr) = Shape(last.before.from)
    /\ Shape(tree.to) = Shape(last.before.to)

(***************************************************************************)
(* Properties of the emitted casts                                         *)
(***************************************************************************)
RECURSIVE OperatorOutside(_, _, _)
\* the text x has, from position i on and at parenthesis depth n, a blank
\* outside every pair of parentheses: emit writes a blank only around a
\* binary operator and inside the prefix of a cast
OperatorOutside(x, i, n) ==
    IF i > Len(x) THEN FALSE
    ELSE IF SubSeq(x, i, i) = "(" THEN OperatorOutside(x, i + 1, n + 1)
    ELSE IF SubSeq(x, i, i) = ")" THEN OperatorOutside(x, i + 1, n - 1)
    ELSE IF SubSeq(x, i, i) = " " /\ n = 0 THEN TRUE
    ELSE OperatorOutside(x, i + 1, n)

\* the text x reads as one operand of a cast: a name, a literal or one
\* parenthesised group, with no binary operator outside parentheses
OneOperand(x) == ~OperatorOutside(x, 1, 0)

\* C28 as stated: for a cast over any expression the emitted text encloses
\* the entire operand in one group after the (type) prefix, so that the
\* text read with C precedence is the cast applied to the whole operand
\* and not to its left operand only.
C28_Original ==
    pc = "emitted" =>
        \A n \in Nodes(tree) :
            n.kind = "TYPE_CAST" =>
                OneOperand(emit(n.expr))

\* !(a + b) has been emitted: the implicit cast to bool stands before
\* (a) + (b) without parentheses around the sum, so the text reads as the
\* cast of a alone, plus b
C28_Witness ==
    /\ pc = "emitted"
    /\ tree.kind = "UNARY"
    /\ tree.op = "LOG_NOT"
    /\ tree.arg.kind = "TYPE_CAST"
    /\ tree.arg.expr.kind = "BINARY"
    /\ tree.arg.expr.op = "ADD"
    /\ emit(tree.arg.expr) = "(a) + (b)"
    /\ ~OneOperand(emit(tree.arg.expr))
    /\ stream = "(!(((/* implicit */bool) (a) + (b))))"

(***************************************************************************)
(* Properties of the command line                                          *)
(***************************************************************************)
\* the positions in the options handled at which kind was given a value of V
Given(kind, V) ==
    {j \in DOMAIN returned : returned[j].kind = kind /\ returned[j].val \in V}

\* the value the last of the positions J was given
LastVal(J) == returned[CHOOSE j \in J : \A k \in J : k <= j].val

AlignmentSize(val) ==
    CASE val = "16" -> "A16" [] val = "32" -> "A32" [] val = "64" -> "A64"

OptionLevel(val) ==
    CASE val = "none" -> "NONE" [] val = "some" -> "SOME" [] val = "all" -> "ALL"

Truncated(t, v) ==
    IF getIsSigned(t) /\ lowBits(v, getBitSize(t)) >= Pow2(getBitSize(t) - 1)
    THEN lowBits(v, getBitSize(t))
            + (Pow2(getBitSize("ULLONG")) - Pow2(getBitSize(t)))
    ELSE lowBits(v, getBitSize(t))

\* C30: for every integral type and every uint64_t v, set_value(v) followed
\* by get_value() returns v truncated to the width of the type, sign
\* extended to the width of uint64_t for a signed type, and 0 or 1 for
\* BOOL (1 for every v but 0); set_value(get_value()) leaves the stored
\* value unchanged.
C30_RoundTrip ==
    /\ (pc = "got" /\ last.act = "get_value") =>
        /\ last.data \in UInt64
        /\ data.type # "BOOL" => last.data = Truncated(data.type, last.before)
        /\ data.type = "BOOL" => last.data = (IF last.before = 0 THEN 0 ELSE 1)
    /\ (pc = "stored") => data = last.before

\* the largest uint64_t has been stored in a signed char and read back as
\* the largest uint64_t, the sign extension of -1, and stored again
C30_Witness ==
    /\ pc = "stored"
    /\ data.type = "SCHAR"
    /\ data.value = 0 - 1
    /\ last.data = getMax("ULLONG")
    /\ last.before = data

====
